---- MODULE Spec2Model ----
(***************************************************************************)
(* Model of the gantz-cli tunnel session (internal/tunnel/client.go) and   *)
(* of the MCP dispatcher it drives (internal/mcp/server.go).               *)
(*                                                                         *)
(* The session is one Client: Connect dials the relay and reads the        *)
(* handshake frame, then starts handleMessages (the read loop) and         *)
(* keepalive (the liveness loop).  Every "request" frame is handled by a   *)
(* goroutine of its own; all writers share the mutex mu.                   *)
(***************************************************************************)
EXTENDS Integers, Sequences, FiniteSets, TLC

(***************************************************************************)
(* Bounds of the exploration.                                              *)
(***************************************************************************)
MaxReads == 2
MaxTicks == 1
MaxConnects == 2

Waiters == {"w1"}

(***************************************************************************)
(* JSON values of the RPC "id" member and their Go decoding.               *)
(* A JSON integer n is kept as hi * Base + lo so that values beyond 2^53   *)
(* are representable; float64 has a 53 bit mantissa.                       *)
(***************************************************************************)
Base == 134217728
TwoPow26 == 67108864

IdAbsent == [k |-> "absent", hi |-> 0, lo |-> 0, s |-> ""]
IdNull == [k |-> "null", hi |-> 0, lo |-> 0, s |-> ""]
IdNum(hi, lo) == [k |-> "num", hi |-> hi, lo |-> lo, s |-> ""]
IdStr(s) == [k |-> "str", hi |-> 0, lo |-> 0, s |-> s]

GoNil == [k |-> "nil", hi |-> 0, lo |-> 0, s |-> ""]
GoFloat(hi, lo) == [k |-> "float64", hi |-> hi, lo |-> lo, s |-> ""]
GoString(s) == [k |-> "string", hi |-> 0, lo |-> 0, s |-> s]

\* float64 nearest to the integer hi * Base + lo (0 <= n < 2^54), ties to even
ToFloat64(hi, lo) ==
    IF hi < TwoPow26 \/ lo % 2 = 0
    THEN GoFloat(hi, lo)
    ELSE LET down == lo - 1
             up == lo + 1
             pick == IF (down \div 2) % 2 = 0 THEN down ELSE up
         IN IF pick = Base THEN GoFloat(hi + 1, 0) ELSE GoFloat(hi, pick)

\* json.Unmarshal of the id member into interface{}
DecodeID(j) ==
    CASE j.k = "absent" -> GoNil
      [] j.k = "null" -> GoNil
      [] j.k = "num" -> ToFloat64(j.hi, j.lo)
      [] j.k = "str" -> GoString(j.s)

\* json.Marshal of an interface{} id tagged `json:"id,omitempty"`
EncodeID(v) ==
    CASE v.k = "nil" -> IdAbsent
      [] v.k = "float64" -> IdNum(v.hi, v.lo)
      [] v.k = "string" -> IdStr(v.s)

(***************************************************************************)
(* RPC requests as they arrive in an envelope payload.                     *)
(***************************************************************************)
ParamsAbsent == [k |-> "absent", name |-> ""]
ParamsNull == [k |-> "null", name |-> ""]
ParamsBad == [k |-> "bad", name |-> ""]
ParamsCall(n) == [k |-> "object", name |-> n]

BadPayload == [k |-> "bad", id |-> IdAbsent, method |-> "", params |-> ParamsAbsent]
ReqPayload(id, m, p) == [k |-> "req", id |-> id, method |-> m, params |-> p]

\* json.Unmarshal(msg.Payload, &req)
MCPRequest(p) == [ID |-> DecodeID(p.id), Method |-> p.method, Params |-> p.params]

(***************************************************************************)
(* RPC responses (Go values) and their JSON encoding.                      *)
(***************************************************************************)
NoError == [Code |-> 0, Message |-> <<>>, set |-> FALSE]
MCPError(code, message) == [Code |-> code, Message |-> message, set |-> TRUE]

NoResult == [k |-> "nil", isError |-> FALSE, text |-> <<>>, tools |-> <<>>]
InitializeResult(cfg) ==
    [k |-> "initialize", isError |-> FALSE, text |-> <<cfg.Name>>, tools |-> <<>>]
PingResult == [k |-> "empty", isError |-> FALSE, text |-> <<>>, tools |-> <<>>]
ToolsResult(ts) == [k |-> "tools", isError |-> FALSE, text |-> <<>>, tools |-> ts]
ContentResult(text, isError) ==
    [k |-> "content", isError |-> isError, text |-> text, tools |-> <<>>]

MCPResponse(id, result, error) == [ID |-> id, Result |-> result, Error |-> error]
NoResponse == MCPResponse(GoNil, NoResult, NoError)

\* json.Marshal(resp): id, result and error are omitempty
Marshal(resp) ==
    [k |-> "json",
     id |-> EncodeID(resp.ID),
     hasResult |-> resp.Result.k # "nil",
     result |-> resp.Result,
     hasError |-> resp.Error.set,
     error |-> resp.Error]
NoPayload ==
    [k |-> "none", id |-> IdAbsent, hasResult |-> FALSE, result |-> NoResult,
     hasError |-> FALSE, error |-> NoError]

(***************************************************************************)
(* The action registry (config.Config) and the invoker results.            *)
(***************************************************************************)
Param(n, t, d, r, def) ==
    [Name |-> n, Type |-> t, Description |-> d, Required |-> r, Default |-> def]
Tool(n, d, http, ps) ==
    [Name |-> n, Description |-> d, IsHTTP |-> http, Parameters |-> ps]

InitialConfig ==
    [Name |-> "gantz-local",
     Tools |-> << Tool("hello", "greets", FALSE,
                       << Param("name", "string", "who", TRUE, ""),
                          Param("greeting", "string", "how", FALSE, "Hi"),
                          Param("times", "number", "how often", TRUE, "") >>),
                  Tool("fetch", "gets", TRUE,
                       << Param("q", "string", "query", FALSE, "x") >>) >>]

\* the registry a later load of the configuration file yields: hello has
\* changed, fetch is gone, stats is new
ReloadedConfig ==
    [Name |-> "gantz-local",
     Tools |-> << Tool("stats", "counts", FALSE, << >>),
                  Tool("hello", "greets again", FALSE,
                       << Param("name", "string", "who", FALSE, "you") >>) >>]

\* no registry: a handler that has not called the dispatcher
NoConfig == [Name |-> "", Tools |-> << >>]

NoInvocation == [Output |-> "", ExitCode |-> 0, Error |-> ""]
Result(out, code, err) == [Output |-> out, ExitCode |-> code, Error |-> err]

\* the error of cmd.Run: nil, an *exec.ExitError with the exit code of the
\* process, or another error
NoErr == [kind |-> "nil", code |-> 0, text |-> ""]
ExitError(code, text) == [kind |-> "exit", code |-> code, text |-> text]
OtherError(text) == [kind |-> "other", code |-> 0, text |-> text]

\* runs of a script: its trimmed output and the error of cmd.Run
ProcessRuns ==
    { [output |-> "Hello, World!", err |-> NoErr],
      [output |-> "", err |-> ExitError(1, "exit status 1")],
      [output |-> "oops", err |-> ExitError(2, "exit status 2")],
      [output |-> "", err |-> OtherError("executable file not found")] }

ExecutorExecuteKeepsZero(run) ==
    Result(run.output,
           IF run.err.kind = "exit" THEN run.err.code ELSE 0,
           run.err.text)

\* Executor.Execute: the result of a run
ExecutorExecute(run) ==
    Result(run.output,
           IF run.err.kind = "nil" THEN 0
           ELSE IF run.err.kind = "exit" THEN run.err.code ELSE -1,
           run.err.text)

\* HTTP calls: the step that failed with its error, or the status and the
\* trimmed body of the response
HTTPCalls ==
    { [failed |-> "do", err |-> "timeout", status |-> 0, body |-> ""],
      [failed |-> "", err |-> "", status |-> 404, body |-> "not found"],
      [failed |-> "", err |-> "", status |-> 200, body |-> "Hello, World!"] }

\* HTTPExecutor.Execute: the result of a call
HTTPExecute(call) ==
    CASE call.failed = "create" ->
             Result("Failed to create request: " \o call.err, -1, call.err)
      [] call.failed = "do" ->
             Result("Request failed: " \o call.err, -1, call.err)
      [] call.failed = "read" ->
             Result("Failed to read response: " \o call.err, -1, call.err)
      [] OTHER ->
             Result(call.body, IF call.status >= 400 THEN 1 ELSE 0, "")

\* what the executors may return: success, a failing script without and
\* with output, a script that did not start, a failed HTTP request, an HTTP
\* status >= 400
InvokeResults ==
    {ExecutorExecute(run) : run \in ProcessRuns}
        \cup {HTTPExecute(call) : call \in HTTPCalls}
SessionResults == { Result("Hello, World!", 0, ""), Result("", 1, "exit status 1") }

GetToolDefault(cfg, name) ==
    LET hits == {i \in 1..Len(cfg.Tools) : cfg.Tools[i].Name = name}
    IN IF hits = {} THEN 1 ELSE CHOOSE i \in hits : \A j \in hits : i <= j

\* (c *Config) GetTool: index of the first tool called name, 0 when none
GetTool(cfg, name) ==
    LET hits == {i \in 1..Len(cfg.Tools) : cfg.Tools[i].Name = name}
    IN IF hits = {} THEN 0 ELSE CHOOSE i \in hits : \A j \in hits : i <= j

\* json.Unmarshal(req.Params, &params) into toolCallParams
ParamsDecode(p) == p.k \in {"null", "object"}

RECURSIVE RequiredNames(_)
RequiredNames(ps) ==
    IF ps = <<>> THEN <<>>
    ELSE IF ps[1].Required
         THEN <<ps[1].Name>> \o RequiredNames(Tail(ps))
         ELSE RequiredNames(Tail(ps))

\* the property written last under a name wins (properties is a map)
PropertyOf(ps, n) ==
    LET last == CHOOSE i \in 1..Len(ps) :
                    /\ ps[i].Name = n
                    /\ \A j \in 1..Len(ps) : ps[j].Name = n => j <= i
    IN [type |-> ps[last].Type,
        description |-> ps[last].Description,
        hasDefault |-> ps[last].Default # "",
        default |-> ps[last].Default]

InputSchemaAllRequired(ps) ==
    [type |-> "object",
     properties |-> [n \in {ps[i].Name : i \in 1..Len(ps)} |-> PropertyOf(ps, n)],
     hasRequired |-> TRUE,
     required |-> [i \in 1..Len(ps) |-> ps[i].Name]]

InputSchema(ps) ==
    LET req == RequiredNames(ps)
    IN [type |-> "object",
        properties |-> [n \in {ps[i].Name : i \in 1..Len(ps)} |-> PropertyOf(ps, n)],
        hasRequired |-> Len(req) > 0,
        required |-> req]

handleToolsList(req, cfg) ==
    MCPResponse(req.ID,
                ToolsResult([i \in 1..Len(cfg.Tools) |->
                               [name |-> cfg.Tools[i].Name,
                                description |-> cfg.Tools[i].Description,
                                inputSchema |-> InputSchema(cfg.Tools[i].Parameters)]]),
                NoError)

handleInitialize(req, cfg) == MCPResponse(req.ID, InitializeResult(cfg), NoError)

handlePingNilResult(req) == MCPResponse(req.ID, NoResult, NoError)

handlePing(req) == MCPResponse(req.ID, PingResult, NoError)

\* TRUE when tools/call gets as far as the invoker
NeedsInvoke(req, cfg) ==
    /\ req.Method = "tools/call"
    /\ ParamsDecode(req.Params)
    /\ GetTool(cfg, req.Params.name) # 0

handleToolsCallErrorFlag(req, cfg, result) ==
    IF ~ParamsDecode(req.Params)
    THEN MCPResponse(req.ID, NoResult, MCPError(-32602, <<"Invalid params">>))
    ELSE IF GetTool(cfg, req.Params.name) = 0
    THEN MCPResponse(req.ID, NoResult,
                     MCPError(-32602, <<"Tool not found: ", req.Params.name>>))
    ELSE IF result.Error # "" /\ result.Output = ""
    THEN MCPResponse(req.ID,
                     ContentResult(<<"Error: ", result.Error>>, result.Error # ""),
                     NoError)
    ELSE MCPResponse(req.ID,
                     ContentResult(<<result.Output>>, result.Error # ""),
                     NoError)

handleToolsCallErrorFirst(req, cfg, result) ==
    IF ~ParamsDecode(req.Params)
    THEN MCPResponse(req.ID, NoResult, MCPError(-32602, <<"Invalid params">>))
    ELSE IF GetTool(cfg, req.Params.name) = 0
    THEN MCPResponse(req.ID, NoResult,
                     MCPError(-32602, <<"Tool not found: ", req.Params.name>>))
    ELSE IF result.Error # ""
    THEN MCPResponse(req.ID,
                     ContentResult(<<"Error: ", result.Error>>, result.ExitCode # 0),
                     NoError)
    ELSE MCPResponse(req.ID,
                     ContentResult(<<result.Output>>, result.ExitCode # 0),
                     NoError)

\* result is the invoker's result, read only when NeedsInvoke
handleToolsCall(req, cfg, result) ==
    IF ~ParamsDecode(req.Params)
    THEN MCPResponse(req.ID, NoResult, MCPError(-32602, <<"Invalid params">>))
    ELSE IF GetTool(cfg, req.Params.name) = 0
    THEN MCPResponse(req.ID, NoResult,
                     MCPError(-32602, <<"Tool not found: ", req.Params.name>>))
    ELSE IF result.Error # "" /\ result.Output = ""
    THEN MCPResponse(req.ID,
                     ContentResult(<<"Error: ", result.Error>>, result.ExitCode # 0),
                     NoError)
    ELSE MCPResponse(req.ID,
                     ContentResult(<<result.Output>>, result.ExitCode # 0),
                     NoError)

HandleRequestUnknownAsCall(req, cfg, result) ==
    CASE req.Method = "initialize" -> handleInitialize(req, cfg)
      [] req.Method = "tools/list" -> handleToolsList(req, cfg)
      [] req.Method = "ping" -> handlePing(req)
      [] OTHER -> handleToolsCall(req, cfg, result)

HandleRequest(req, cfg, result) ==
    CASE req.Method = "initialize" -> handleInitialize(req, cfg)
      [] req.Method = "tools/list" -> handleToolsList(req, cfg)
      [] req.Method = "tools/call" -> handleToolsCall(req, cfg, result)
      [] req.Method = "ping" -> handlePing(req)
      [] OTHER -> MCPResponse(req.ID, NoResult,
                              MCPError(-32601, <<"Method not found: ", req.Method>>))

(***************************************************************************)
(* Envelopes (TunnelMessage).                                              *)
(***************************************************************************)
NoReqPayload == [k |-> "none", id |-> IdAbsent, method |-> "", params |-> ParamsAbsent]

Frame(t, url, rid, p, ip) ==
    [type |-> t, tunnel_url |-> url, request_id |-> rid, payload |-> p, client_ip |-> ip]

NoFrame == Frame("", "", "", NoReqPayload, "")


TunnelURL == "https://a.gantz.run"
OtherURL == "https://b.gantz.run"

RequestFrame(rid, p) == Frame("request", "", rid, p, "")
PingFrame == Frame("ping", "", "", NoReqPayload, "")
ClientConnectedFrame(ip) == Frame("client_connected", "", "", NoReqPayload, ip)
RegisteredFrame(u) == Frame("registered", u, "", NoReqPayload, "")

\* the frames of a relay that forwards two callers' requests
SessionFrames ==
    { RequestFrame("r1", ReqPayload(IdStr("a"), "tools/call", ParamsCall("hello"))),
      RequestFrame("r2", BadPayload),
      PingFrame,
      ClientConnectedFrame("10.0.0.7"),
      RegisteredFrame(OtherURL) }

IdValues == {IdAbsent, IdNull, IdNum(0, 1), IdNum(TwoPow26, 1), IdStr("a")}
ParamValues ==
    {ParamsAbsent, ParamsNull, ParamsBad,
     ParamsCall("hello"), ParamsCall("fetch"), ParamsCall("missing"),
     ParamsCall("Hello")}

\* the request envelopes of a relay that forwards every shape of RPC request
RpcFrames ==
    { RequestFrame("r1", BadPayload) }
      \cup { RequestFrame("r1", ReqPayload(id, m, ParamsAbsent)) :
                id \in IdValues, m \in {"initialize", "tools/list", "ping", "nope"} }
      \cup { RequestFrame("r1", ReqPayload(id, "tools/run", ParamsCall("hello"))) :
                id \in IdValues }
      \cup { RequestFrame("r1", ReqPayload(id, "tools/call", p)) :
                id \in IdValues, p \in ParamValues }

\* every frame the relay may send first
HandshakeFrames ==
    { RegisteredFrame(TunnelURL), PingFrame, Frame("error", "", "", NoReqPayload, "") }

\* outcomes of websocket.DefaultDialer.Dial: 0 is a nil *http.Response
DialStatuses == {0, 403, 426}
StatusUpgradeRequired == 426

\* errors an MCPHandler other than mcp.Server may return
HandlerErrs == {"handler failed"}

Reader == [k |-> "reader", i |-> 0]
Keepalive == [k |-> "keepalive", i |-> 0]
Handler(i) == [k |-> "handler", i |-> i]
Free == [k |-> "free", i |-> 0]

VARIABLES
    conn,        \* c.conn: "nil", "open" or "closed"
    linkUp,      \* the transport to the relay is alive
    tunnelURL,   \* c.tunnelURL
    done,        \* c.done: "open", "closed", or "panic" once closed twice
    mu,          \* c.mu: Free or its holder
    config,      \* the registry the dispatcher reads
    connectPc,   \* position of the Connect call
    connectRet,  \* what Connect returned
    dials,       \* Dial calls made
    dialStatus,  \* status of the response of a failed Dial, 0 without one
    handshake,   \* the first frame Connect read
    rlPc,        \* position of handleMessages
    rlExit,      \* why handleMessages returned
    msg,         \* the frame handleMessages read last
    reads,       \* frames handleMessages has read
    pings,       \* ping frames handleMessages has read
    notified,    \* arguments of the onClientConnected calls
    rlOn,        \* the connection the loop's ReadJSON is on: "current" for the
                 \* one c.conn names, "old_open" or "old_closed" for one that
                 \* c.conn named when the call began
    kaPc,        \* position of keepalive
    ticks,       \* ticker firings keepalive has taken
    handlers,    \* the handleRequest goroutines, in spawn order
    writes,      \* the WriteJSON calls on the connection, in order
    waitPc,      \* position of each Wait call
    waitRet,     \* what each Wait call returned
    closes,      \* Close calls so far
    closeRet,    \* what the last Close call returned
    relayFrames, \* the frames the relay sends once the session is up
    readLimit,   \* how many of them it sends at most
    handlerErrs, \* the errors the session's MCPHandler may return
    invokeResults, \* the results the invokers may return
    closeLimit,  \* how many times the host calls Close at most
    onClientConnected, \* c.onClientConnected is set
    exited,      \* the runtime has ended the process after a panic
    others,      \* the goroutines of earlier Connect calls that still run
    lastLoad     \* how the last config.Load call ended

connVars == <<conn, linkUp>>
connectVars == <<connectPc, connectRet, dials, dialStatus, handshake, tunnelURL>>
readerVars == <<rlPc, rlExit, msg, reads, pings, notified, rlOn>>
keepaliveVars == <<kaPc, ticks>>
hostVars == <<waitPc, waitRet, closes, closeRet>>
envVars == <<relayFrames, readLimit, handlerErrs, invokeResults, closeLimit,
            onClientConnected, exited>>
relayVars == <<envVars, others>>
vars == <<conn, linkUp, tunnelURL, done, mu, config, connectPc, connectRet,
          dials, dialStatus, handshake, rlPc, rlExit, msg, reads, pings, notified, rlOn,
          kaPc, ticks,
          handlers, writes, waitPc, waitRet, closes, closeRet, relayFrames,
          readLimit, handlerErrs, invokeResults, closeLimit, onClientConnected,
          exited, others, lastLoad>>

NoReturn == [url |-> "", err |-> "pending"]

\* NewClient
InitClient ==
    /\ conn = "nil"
    /\ linkUp = TRUE
    /\ tunnelURL = ""
    /\ done = "open"
    /\ mu = Free
    /\ config = InitialConfig
    /\ connectPc = "idle"
    /\ connectRet = NoReturn
    /\ dials = 0
    /\ dialStatus = 0
    /\ handshake = NoFrame
    /\ rlPc = "none"
    /\ rlExit = ""
    /\ msg = NoFrame
    /\ reads = 0
    /\ pings = 0
    /\ notified = <<>>
    /\ rlOn = "current"
    /\ kaPc = "none"
    /\ ticks = 0
    /\ handlers = <<>>
    /\ writes = {}
    /\ waitPc = [w \in Waiters |-> "idle"]
    /\ waitRet = [w \in Waiters |-> "pending"]
    /\ closes = 0
    /\ closeRet = "none"
    /\ exited = FALSE
    /\ others = <<>>
    /\ lastLoad = "ok"

\* the session as cmd/gantz wires it: the handler is mcp.Server
Init ==
    /\ InitClient
    /\ relayFrames = SessionFrames
    /\ readLimit = MaxReads
    /\ handlerErrs = {}
    /\ invokeResults = {Result("Hello, World!", 0, "")}
    /\ closeLimit = 1
    /\ onClientConnected = TRUE

\* one RPC request of any shape sent through a session whose handler is
\* any MCPHandler
InitRpc ==
    /\ InitClient
    /\ relayFrames = RpcFrames \cup {PingFrame}
    /\ readLimit = 1
    /\ handlerErrs = HandlerErrs
    /\ invokeResults = InvokeResults
    /\ closeLimit = 1
    /\ onClientConnected = TRUE

\* one RPC request of any shape sent through the session as cmd/gantz wires
\* it, with every result an invoker may return
InitServer ==
    /\ InitClient
    /\ relayFrames = RpcFrames \cup {PingFrame}
    /\ readLimit = 1
    /\ handlerErrs = {}
    /\ invokeResults = InvokeResults
    /\ closeLimit = 2
    /\ onClientConnected = TRUE

\* the RPC id of the requests of ReloadFrames and FaultFrames
OneId == IdNum(0, 1)

\* a tools/list, a tools/call of an action that only the initial registry
\* has, and a ping
ReloadFrames ==
    { RequestFrame("r1", ReqPayload(OneId, "tools/list", ParamsAbsent)),
      RequestFrame("r2", ReqPayload(OneId, "tools/call", ParamsCall("fetch"))),
      PingFrame }

\* a session whose registry the host replaces while requests are served
InitReload ==
    /\ InitClient
    /\ relayFrames = ReloadFrames
    /\ readLimit = 2
    /\ handlerErrs = {}
    /\ invokeResults = {Result("Hello, World!", 0, "")}
    /\ closeLimit = 1
    /\ onClientConnected = TRUE

\* a client_connected frame with and without a client address, a request
\* and a ping
ObserverFrames ==
    { ClientConnectedFrame("10.0.0.7"),
      ClientConnectedFrame(""),
      RequestFrame("r1", ReqPayload(OneId, "tools/call", ParamsCall("hello"))),
      PingFrame }

\* two frames read by a session with and without an OnClientConnected
\* callback
InitObserver ==
    /\ InitClient
    /\ relayFrames = ObserverFrames
    /\ readLimit = 2
    /\ handlerErrs = {}
    /\ invokeResults = SessionResults
    /\ closeLimit = 1
    /\ onClientConnected \in BOOLEAN

\* a request and a ping
ReconnectFrames ==
    { RequestFrame("r1", ReqPayload(OneId, "tools/call", ParamsCall("hello"))),
      PingFrame }

\* a session whose host may call Connect again
InitReconnect ==
    /\ InitClient
    /\ relayFrames = ReconnectFrames
    /\ readLimit = 1
    /\ handlerErrs = {}
    /\ invokeResults = SessionResults
    /\ closeLimit = 1
    /\ onClientConnected = TRUE

\* requests that end in each RPC error or in an invocation, and a ping
FaultFrames ==
    { RequestFrame("r2", BadPayload),
      RequestFrame("r2", ReqPayload(OneId, "nope", ParamsAbsent)),
      RequestFrame("r1", ReqPayload(OneId, "tools/call", ParamsCall("missing"))),
      RequestFrame("r1", ReqPayload(OneId, "tools/call", ParamsCall("hello"))),
      PingFrame }

\* two frames read by a session whose handler may fail and whose invokers
\* succeed, fail or time out
InitFaults ==
    /\ InitClient
    /\ relayFrames = FaultFrames
    /\ readLimit = 2
    /\ handlerErrs = HandlerErrs
    /\ invokeResults = {Result("Hello, World!", 0, ""),
                        Result("", 1, "exit status 1"),
                        Result("Request failed: timeout", -1, "timeout")}
    /\ closeLimit = 1
    /\ onClientConnected = TRUE

(***************************************************************************)
(* The write gate and the transport write.                                 *)
(***************************************************************************)
LockUnguarded(who) == mu' = who

\* c.mu.Lock()
Lock(who) == mu = Free /\ mu' = who

\* c.mu.Unlock()
Unlock == mu' = Free

\* c.conn.WriteJSON(env): fails on a closed or broken connection
\* n numbers the writes of one writer
WriteJSON(who, n, env) ==
    writes' = writes \cup {[by |-> who, n |-> n, env |-> env, ok |-> conn = "open" /\ linkUp]}

Envelope(t, rid, p) == [type |-> t, request_id |-> rid, payload |-> p]

ResponseEnvelopeUncorrelated(requestID, resp) == Envelope("response", "", Marshal(resp))

\* the TunnelMessage built by sendResponse
ResponseEnvelope(requestID, resp) == Envelope("response", requestID, Marshal(resp))

PongEnvelope == Envelope("pong", "", NoPayload)

\* the MCPResponse built by sendError
sendError(code, message) == MCPResponse(GoNil, NoResult, MCPError(code, message))

(***************************************************************************)
(* Connect.                                                                *)
(***************************************************************************)
\* the handleMessages goroutine exists and has not returned
ReadLoopRunning ==
    rlPc \in {"reading", "notify", "pong_lock", "pong_write", "panicking"}

\* the keepalive goroutine exists and has not returned
KeepaliveRunning == kaPc \in {"waiting", "lock", "writing"}

\* a goroutine of an earlier Connect call: a read loop with its position,
\* its last frame and the connection its ReadJSON is on, or a liveness loop
\* with its position
OtherReader(pc, exit, m, on) ==
    [k |-> "reader", pc |-> pc, exit |-> exit, msg |-> m, on |-> on]
OtherKeepalive(pc) ==
    [k |-> "keepalive", pc |-> pc, exit |-> "", msg |-> NoFrame, on |-> "current"]

\* where the ReadJSON of a read loop is once c.conn is overwritten: a call
\* that had begun stays on the connection c.conn named, which nobody closes
\* any more, and a loop that has yet to evaluate c.conn reads the new one
AfterOverwrite(pc, on) ==
    IF pc = "reading" /\ on = "current" /\ conn # "nil"
    THEN {"current", IF conn = "open" /\ linkUp THEN "old_open" ELSE "old_closed"}
    ELSE {on}

\* c.conn = conn, as the read loops see it
OverwriteConn ==
    /\ rlOn' \in AfterOverwrite(rlPc, rlOn)
    /\ \E on \in [DOMAIN others -> {"current", "old_open", "old_closed"}] :
          /\ \A i \in DOMAIN others : on[i] \in AfterOverwrite(others[i].pc, others[i].on)
          /\ others' = [i \in DOMAIN others |-> [others[i] EXCEPT !.on = on[i]]]

DialErrorAnyStatus(status) ==
    IF status # 0 THEN "version outdated - run: gantz update" ELSE "dial relay"

\* the error Connect returns when Dial fails with this response status
DialError(status) ==
    IF status # 0 /\ status = StatusUpgradeRequired
    THEN "version outdated - run: gantz update"
    ELSE "dial relay"

ConnectDialRetries ==
    /\ connectPc = "idle"
    /\ dials < 3
    /\ dials' = dials + 1
    /\ \/ /\ conn' = "open"
          /\ OverwriteConn
          /\ connectPc' = "handshake"
          /\ UNCHANGED <<connectRet, dialStatus>>
       \/ \E status \in DialStatuses :
             /\ connectPc' = IF dials + 1 < 3 THEN "idle" ELSE "returned"
             /\ connectRet' = [url |-> "", err |-> DialError(status)]
             /\ dialStatus' = status
             /\ UNCHANGED <<conn, rlOn, others>>
    /\ UNCHANGED <<linkUp, tunnelURL, handshake, done, mu, config, rlPc, rlExit, msg,
                   reads, pings, notified, keepaliveVars, handlers, writes, hostVars,
                   envVars, lastLoad>>

ConnectDialStartsKeepalive ==
    /\ connectPc = "idle"
    /\ dials' = dials + 1
    /\ \/ /\ conn' = "open"
          /\ OverwriteConn
          /\ connectPc' = "handshake"
          /\ kaPc' = "waiting"
          /\ UNCHANGED <<connectRet, dialStatus>>
       \/ \E status \in DialStatuses :
             /\ connectPc' = "returned"
             /\ connectRet' = [url |-> "", err |-> DialError(status)]
             /\ dialStatus' = status
             /\ UNCHANGED <<conn, kaPc, rlOn, others>>
    /\ UNCHANGED <<linkUp, tunnelURL, handshake, done, mu, config, rlPc, rlExit, msg,
                   reads, pings, notified, ticks, handlers, writes, hostVars,
                   envVars, lastLoad>>

\* websocket.DefaultDialer.Dial, once per Connect call; a dial that
\* succeeds stores a fresh connection in c.conn, over the one it named
ConnectDial ==
    /\ connectPc = "idle"
    /\ dials' = dials + 1
    /\ \/ /\ conn' = "open"
          /\ linkUp' = TRUE
          /\ OverwriteConn
          /\ connectPc' = "handshake"
          /\ UNCHANGED <<connectRet, dialStatus>>
       \/ \E status \in DialStatuses :
             /\ connectPc' = "returned"
             /\ connectRet' = [url |-> "", err |-> DialError(status)]
             /\ dialStatus' = status
             /\ UNCHANGED <<conn, linkUp, rlOn, others>>
    /\ UNCHANGED <<tunnelURL, handshake, done, mu, config, rlPc, rlExit, msg, reads,
                   pings, notified, keepaliveVars, handlers, writes, hostVars,
                   envVars, lastLoad>>

HandshakeFailKeepOpen(f, err) ==
    /\ handshake' = f
    /\ connectPc' = "returned"
    /\ connectRet' = [url |-> "", err |-> err]
    /\ UNCHANGED <<conn, tunnelURL, rlPc, rlExit, msg, rlOn, kaPc, others>>

\* conn.Close() and the error return of a failed handshake
HandshakeFail(f, err) ==
    /\ conn' = "closed"
    /\ handshake' = f
    /\ connectPc' = "returned"
    /\ connectRet' = [url |-> "", err |-> err]
    /\ UNCHANGED <<tunnelURL, rlPc, rlExit, msg, rlOn, kaPc, others>>

\* the registered frame: record the URL and go handleMessages; the new
\* read loop runs from here on, beside the rest of Connect and beside a read
\* loop of an earlier Connect call that has not returned
HandshakeOK(f) ==
    /\ tunnelURL' = f.tunnel_url
    /\ handshake' = f
    /\ rlPc' = "reading"
    /\ rlExit' = ""
    /\ msg' = NoFrame
    /\ rlOn' = "current"
    /\ others' = IF ReadLoopRunning
                 THEN Append(others, OtherReader(rlPc, rlExit, msg, rlOn))
                 ELSE others
    /\ connectPc' = "go_keepalive"
    /\ UNCHANGED <<conn, kaPc, connectRet>>

ConnectHandshake ==
    /\ connectPc = "handshake"
    /\ \/ /\ conn = "open" /\ linkUp
          /\ \E f \in HandshakeFrames :
                IF f.type # "registered"
                THEN HandshakeFail(f, "unexpected message type")
                ELSE HandshakeOK(f)
       \/ HandshakeFail(NoFrame, "read registration")
    /\ UNCHANGED <<linkUp, done, mu, config, dials, dialStatus, reads, pings,
                   notified, ticks, handlers, writes, hostVars, envVars, lastLoad>>

ConnectSkipsKeepalive ==
    /\ connectPc = "go_keepalive"
    /\ connectPc' = "return"
    /\ UNCHANGED <<connVars, done, mu, config, connectRet, dials, dialStatus, handshake,
                   tunnelURL, readerVars, keepaliveVars, handlers, writes, hostVars,
                   relayVars, lastLoad>>

\* Connect: go c.keepalive(), beside a liveness loop of an earlier Connect
\* call that has not returned
ConnectGoKeepalive ==
    /\ connectPc = "go_keepalive"
    /\ kaPc' = "waiting"
    /\ others' = IF KeepaliveRunning THEN Append(others, OtherKeepalive(kaPc)) ELSE others
    /\ connectPc' = "return"
    /\ UNCHANGED <<connVars, done, mu, config, connectRet, dials, dialStatus, handshake,
                   tunnelURL, readerVars, ticks, handlers, writes, hostVars,
                   envVars, lastLoad>>

\* Connect: return c.tunnelURL, nil
ConnectReturn ==
    /\ connectPc = "return"
    /\ connectPc' = "returned"
    /\ connectRet' = [url |-> tunnelURL, err |-> "nil"]
    /\ UNCHANGED <<connVars, done, mu, config, dials, dialStatus, handshake,
                   tunnelURL, readerVars, keepaliveVars, handlers, writes, hostVars,
                   relayVars, lastLoad>>

(***************************************************************************)
(* handleMessages: the read loop.                                          *)
(***************************************************************************)
\* a handleRequest goroutine: the frame it got, where it stands, whether it
\* called c.handler.HandleRequest and what that returned, whether an invoker
\* ran for it and with what result, the registry the dispatcher read, the
\* response it sends and how many frames it wrote
NewHandler(m) ==
    [msg |-> m, pc |-> "spawned", called |-> FALSE, invoked |-> FALSE,
     cfg |-> NoConfig, result |-> NoInvocation, err |-> "", resp |-> NoResponse, sent |-> 0]

AfterFrameNoPong(t) == "reading"

AfterFramePongUnknown(t) ==
    IF t \in {"request", "client_connected"} THEN "reading" ELSE "pong_lock"

\* where the loop stands after the switch on msg.Type: a ping is answered
\* by sendPong before the next ReadJSON
AfterFrame(t) == IF t = "ping" THEN "pong_lock" ELSE "reading"

IgnoreFrameAdoptURL(m) ==
    /\ tunnelURL' = IF m.type = "registered" THEN m.tunnel_url ELSE tunnelURL
    /\ UNCHANGED <<handlers, notified>>

\* a frame whose type has no case in the switch
IgnoreFrame(m) == UNCHANGED <<tunnelURL, handlers, notified>>

ClientConnectedUnchecked(m) ==
    /\ rlPc' = "notify"
    /\ UNCHANGED <<tunnelURL, handlers, notified>>

\* case "client_connected", the test: with a callback set and a client
\* address in the frame the read loop goes on to call the callback, before
\* its next read
ClientConnected(m) ==
    /\ rlPc' = IF onClientConnected /\ m.client_ip # ""
               THEN "notify"
               ELSE AfterFrame(m.type)
    /\ UNCHANGED <<tunnelURL, handlers, notified>>

\* the switch on msg.Type
Dispatch(m) ==
    /\ msg' = m
    /\ pings' = IF m.type = "ping" THEN pings + 1 ELSE pings
    /\ CASE m.type = "request" ->
              /\ handlers' = Append(handlers, NewHandler(m))
              /\ rlPc' = AfterFrame(m.type)
              /\ UNCHANGED <<tunnelURL, notified>>
         [] m.type = "ping" ->
              /\ rlPc' = AfterFrame(m.type)
              /\ UNCHANGED <<tunnelURL, handlers, notified>>
         [] m.type = "client_connected" -> ClientConnected(m)
         [] OTHER ->
              /\ rlPc' = AfterFrame(m.type)
              /\ IgnoreFrame(m)

AllHandlersDone == \A i \in DOMAIN handlers : handlers[i].pc = "done"

\* the connection the loop's ReadJSON is on is open and its transport alive
ReadUp == IF rlOn = "current" THEN conn = "open" /\ linkUp ELSE rlOn = "old_open"

\* the frames that ReadJSON may yield: the relay's, and the first frame of
\* the connection while Connect waits for it on the same connection
ReadableFrames ==
    relayFrames \cup (IF connectPc = "handshake" /\ rlOn = "current"
                      THEN HandshakeFrames
                      ELSE {})

ReadFrameAfterHandlers ==
    /\ rlPc = "reading"
    /\ AllHandlersDone
    /\ ReadUp
    /\ reads < readLimit
    /\ reads' = reads + 1
    /\ rlOn' = "current"
    /\ \E m \in ReadableFrames : Dispatch(m)
    /\ UNCHANGED <<connVars, done, mu, config, connectPc, connectRet, dials, dialStatus,
                   handshake, rlExit, keepaliveVars, writes, hostVars, relayVars, lastLoad>>

ReadFrameUnlessFault ==
    /\ rlPc = "reading"
    /\ \A i \in DOMAIN handlers : ~handlers[i].resp.Error.set
    /\ ReadUp
    /\ reads < readLimit
    /\ reads' = reads + 1
    /\ rlOn' = "current"
    /\ \E m \in ReadableFrames : Dispatch(m)
    /\ UNCHANGED <<connVars, done, mu, config, connectPc, connectRet, dials, dialStatus,
                   handshake, rlExit, keepaliveVars, writes, hostVars, relayVars, lastLoad>>

\* ReadJSON delivers a frame; the next call is on the connection c.conn
\* names then
ReadFrame ==
    /\ rlPc = "reading"
    /\ ReadUp
    /\ reads < readLimit
    /\ reads' = reads + 1
    /\ rlOn' = "current"
    /\ \E m \in ReadableFrames : Dispatch(m)
    /\ UNCHANGED <<connVars, done, mu, config, connectPc, connectRet, dials, dialStatus,
                   handshake, rlExit, keepaliveVars, writes, hostVars, relayVars, lastLoad>>

ReadLoopExitNoSignal(reason) ==
    /\ rlPc' = "terminated"
    /\ rlExit' = reason
    /\ UNCHANGED done

\* close(ch): closing a channel that is closed already panics
CloseChan(ch) == IF ch = "open" THEN "closed" ELSE "panic"

\* <-ch is ready: the channel has been closed, be it once or twice
IsClosed(ch) == ch # "open"

\* return from handleMessages: the deferred close(c.done) runs
ReadLoopExit(reason) ==
    /\ rlPc' = "terminated"
    /\ rlExit' = reason
    /\ done' = CloseChan(done)

\* c.onClientConnected(msg.ClientIP), in the read loop. The field is read
\* without synchronisation with OnClientConnected: the call goes to the value
\* the test loaded or to the value the field holds now, and calling a nil
\* callback panics
ClientConnectedCall ==
    /\ rlPc = "notify"
    /\ \E cb \in {TRUE, onClientConnected} :
          IF cb
          THEN /\ notified' = Append(notified, msg.client_ip)
               /\ rlPc' = AfterFrame(msg.type)
          ELSE /\ rlPc' = "panicking"
               /\ UNCHANGED notified
    /\ UNCHANGED <<connVars, done, mu, config, connectVars, rlExit, msg, reads, pings,
                   rlOn, keepaliveVars, handlers, writes, hostVars, relayVars, lastLoad>>

\* the panic unwinds handleMessages: its deferred close(c.done) runs, and
\* nothing recovers the panic
ReadLoopUnwind ==
    /\ rlPc = "panicking"
    /\ rlPc' = "panicked"
    /\ rlExit' = "panic"
    /\ done' = CloseChan(done)
    /\ UNCHANGED <<connVars, mu, config, connectVars, msg, reads, pings, notified,
                   rlOn, keepaliveVars, handlers, writes, hostVars, relayVars, lastLoad>>

ReadFailResync ==
    /\ rlPc = "reading"
    /\ \/ /\ ReadUp
          /\ ReadLoopExit("close frame")
          /\ linkUp' = (linkUp /\ rlOn # "current")
       \/ /\ ReadUp
          /\ rlExit' = "undecodable frame"
          /\ UNCHANGED <<rlPc, done, linkUp>>
       \/ /\ ~ReadUp \/ rlOn = "old_open"
          /\ ReadLoopExit("read error")
          /\ UNCHANGED linkUp
    /\ rlOn' = "current"
    /\ UNCHANGED <<conn, mu, config, connectVars, msg, reads, pings, notified,
                   keepaliveVars, handlers, writes, hostVars, relayVars, lastLoad>>

ReadFailOnFramesOnly ==
    /\ rlPc = "reading"
    /\ ReadUp
    /\ \/ ReadLoopExit("close frame") /\ linkUp' = (linkUp /\ rlOn # "current")
       \/ ReadLoopExit("undecodable frame") /\ UNCHANGED linkUp
    /\ rlOn' = "current"
    /\ UNCHANGED <<conn, mu, config, connectVars, msg, reads, pings, notified,
                   keepaliveVars, handlers, writes, hostVars, relayVars, lastLoad>>

\* ReadJSON fails: a close frame of the peer, a frame that is not JSON, or
\* a closed or broken connection; the transport of a connection that c.conn
\* no longer names may break at any time
ReadFail ==
    /\ rlPc = "reading"
    /\ \/ /\ ReadUp
          /\ ReadLoopExit("close frame")
          /\ linkUp' = (linkUp /\ rlOn # "current")
       \/ /\ ReadUp
          /\ ReadLoopExit("undecodable frame")
          /\ UNCHANGED linkUp
       \/ /\ ~ReadUp \/ rlOn = "old_open"
          /\ ReadLoopExit("read error")
          /\ UNCHANGED linkUp
    /\ rlOn' = "current"
    /\ UNCHANGED <<conn, mu, config, connectVars, msg, reads, pings, notified,
                   keepaliveVars, handlers, writes, hostVars, relayVars, lastLoad>>

\* sendPong: c.mu.Lock()
PongLock ==
    /\ rlPc = "pong_lock"
    /\ Lock(Reader)
    /\ rlPc' = "pong_write"
    /\ UNCHANGED <<connVars, done, config, connectVars, rlExit, msg, reads, pings,
                   notified, rlOn, keepaliveVars, handlers, writes, hostVars, relayVars,
                   lastLoad>>

PongWriteFailureEndsLoop ==
    /\ rlPc = "pong_write"
    /\ WriteJSON(Reader, pings, PongEnvelope)
    /\ Unlock
    /\ IF conn = "open" /\ linkUp
       THEN rlPc' = "reading" /\ UNCHANGED <<done, rlExit>>
       ELSE ReadLoopExit("write error")
    /\ UNCHANGED <<connVars, config, connectVars, msg, reads, pings,
                   notified, rlOn, keepaliveVars, handlers, hostVars, relayVars, lastLoad>>

\* sendPong: WriteJSON and the deferred Unlock
PongWrite ==
    /\ rlPc = "pong_write"
    /\ WriteJSON(Reader, pings, PongEnvelope)
    /\ Unlock
    /\ rlPc' = "reading"
    /\ UNCHANGED <<connVars, done, config, connectVars, rlExit, msg, reads, pings,
                   notified, rlOn, keepaliveVars, handlers, hostVars, relayVars, lastLoad>>

(***************************************************************************)
(* handleRequest: one goroutine per request frame.                         *)
(***************************************************************************)
ServerHandleFailing(req, cfg, result) ==
    [resp |-> IF result.ExitCode # 0 THEN NoResponse
              ELSE HandleRequest(req, cfg, result),
     err |-> IF result.ExitCode # 0 THEN "tool failed" ELSE ""]

\* mcp.Server.HandleRequest with its second return value
ServerHandle(req, cfg, result) ==
    [resp |-> HandleRequest(req, cfg, result), err |-> ""]

\* what c.handler.HandleRequest may return: the answer of mcp.Server, or
\* the error of a handler that fails
HandlerOutcomes(req, cfg, result) ==
    {ServerHandle(req, cfg, result)}
        \cup {[resp |-> NoResponse, err |-> e] : e \in handlerErrs}

ResponseForIgnoringErr(out) == out.resp

\* the response handleRequest sends for an outcome of the handler
ResponseFor(out) ==
    IF out.err # "" THEN sendError(-32603, <<out.err>>) ELSE out.resp

ParseErrorInvalidRequest == sendError(-32600, <<"Invalid Request">>)

\* the response handleRequest sends for a payload that is no MCPRequest
ParseError == sendError(-32700, <<"Parse error">>)

CachedRegistry == InitialConfig

\* s.config as the dispatcher reads it, once per request
CurrentRegistry == config

SnapshotReread(h) == config

\* the registry behind the tool pointer a tools/call got from GetTool
SnapshotOf(h) == h.cfg

\* c.handler.HandleRequest returned out
Handled(h, out) ==
    [h EXCEPT !.pc = "lock", !.called = TRUE, !.err = out.err,
              !.resp = ResponseFor(out)]

\* decode the payload and call the handler, up to the invoker call
HandlerBegin(i) ==
    /\ handlers[i].pc = "spawned"
    /\ LET h == handlers[i]
           p == h.msg.payload
       IN IF p.k # "req"
          THEN handlers' = [handlers EXCEPT
                              ![i] = [h EXCEPT !.pc = "lock", !.resp = ParseError]]
          ELSE IF NeedsInvoke(MCPRequest(p), CurrentRegistry)
          THEN handlers' = [handlers EXCEPT
                              ![i] = [h EXCEPT !.pc = "invoking", !.called = TRUE,
                                               !.invoked = TRUE,
                                               !.cfg = CurrentRegistry]]
          ELSE \E out \in HandlerOutcomes(MCPRequest(p), CurrentRegistry, NoInvocation) :
                  handlers' = [handlers EXCEPT
                                 ![i] = Handled([h EXCEPT !.cfg = CurrentRegistry], out)]
    /\ UNCHANGED <<connVars, done, mu, config, connectVars, readerVars,
                   keepaliveVars, writes, hostVars, relayVars, lastLoad>>

HandlerReturnCancelled(i) ==
    /\ handlers[i].pc = "invoking"
    /\ done = "open" /\ conn = "open"
    /\ \E result \in invokeResults :
          \E out \in HandlerOutcomes(MCPRequest(handlers[i].msg.payload),
                                      SnapshotOf(handlers[i]), result) :
             handlers' = [handlers EXCEPT
                            ![i] = Handled([handlers[i] EXCEPT !.result = result], out)]
    /\ UNCHANGED <<connVars, done, mu, config, connectVars, readerVars,
                   keepaliveVars, writes, hostVars, relayVars, lastLoad>>

\* the invoker returns and the handler with it
HandlerReturn(i) ==
    /\ handlers[i].pc = "invoking"
    /\ \E result \in invokeResults :
          \E out \in HandlerOutcomes(MCPRequest(handlers[i].msg.payload),
                                      SnapshotOf(handlers[i]), result) :
             handlers' = [handlers EXCEPT
                            ![i] = Handled([handlers[i] EXCEPT !.result = result], out)]
    /\ UNCHANGED <<connVars, done, mu, config, connectVars, readerVars,
                   keepaliveVars, writes, hostVars, relayVars, lastLoad>>

\* sendResponse: c.mu.Lock()
HandlerLock(i) ==
    /\ handlers[i].pc = "lock"
    /\ Lock(Handler(i))
    /\ handlers' = [handlers EXCEPT ![i].pc = "writing"]
    /\ UNCHANGED <<connVars, done, config, connectVars, readerVars,
                   keepaliveVars, writes, hostVars, relayVars, lastLoad>>

HandlerWriteSkipsNotification(i) ==
    /\ handlers[i].pc = "writing"
    /\ IF handlers[i].msg.payload.id = IdAbsent
       THEN /\ UNCHANGED writes
            /\ handlers' = [handlers EXCEPT ![i].pc = "done"]
       ELSE /\ WriteJSON(Handler(i), handlers[i].sent + 1,
                         ResponseEnvelope(handlers[i].msg.request_id, handlers[i].resp))
            /\ handlers' = [handlers EXCEPT ![i].pc = "done", ![i].sent = @ + 1]
    /\ Unlock
    /\ UNCHANGED <<connVars, done, config, connectVars, readerVars,
                   keepaliveVars, hostVars, relayVars, lastLoad>>

HandlerWriteKeepsGateOnError(i) ==
    /\ handlers[i].pc = "writing"
    /\ WriteJSON(Handler(i), handlers[i].sent + 1,
                 ResponseEnvelope(handlers[i].msg.request_id, handlers[i].resp))
    /\ IF conn = "open" /\ linkUp THEN Unlock ELSE UNCHANGED mu
    /\ handlers' = [handlers EXCEPT ![i].pc = "done", ![i].sent = @ + 1]
    /\ UNCHANGED <<connVars, done, config, connectVars, readerVars,
                   keepaliveVars, hostVars, relayVars, lastLoad>>

\* sendResponse: WriteJSON and the deferred Unlock
HandlerWrite(i) ==
    /\ handlers[i].pc = "writing"
    /\ WriteJSON(Handler(i), handlers[i].sent + 1,
                 ResponseEnvelope(handlers[i].msg.request_id, handlers[i].resp))
    /\ Unlock
    /\ handlers' = [handlers EXCEPT ![i].pc = "done", ![i].sent = @ + 1]
    /\ UNCHANGED <<connVars, done, config, connectVars, readerVars,
                   keepaliveVars, hostVars, relayVars, lastLoad>>

(***************************************************************************)
(* keepalive: the liveness loop.                                           *)
(***************************************************************************)
\* case <-ticker.C
KeepaliveTick ==
    /\ kaPc = "waiting"
    /\ ticks < MaxTicks
    /\ ticks' = ticks + 1
    /\ kaPc' = "lock"
    /\ UNCHANGED <<connVars, done, mu, config, connectVars, readerVars,
                   handlers, writes, hostVars, relayVars, lastLoad>>

KeepaliveIgnoresDone ==
    /\ kaPc = "waiting"
    /\ IsClosed(done)
    /\ UNCHANGED vars

\* case <-c.done
KeepaliveDone ==
    /\ kaPc = "waiting"
    /\ IsClosed(done)
    /\ kaPc' = "terminated"
    /\ UNCHANGED <<connVars, done, mu, config, connectVars, readerVars, ticks,
                   handlers, writes, hostVars, relayVars, lastLoad>>

KeepaliveLock ==
    /\ kaPc = "lock"
    /\ Lock(Keepalive)
    /\ kaPc' = "writing"
    /\ UNCHANGED <<connVars, done, config, connectVars, readerVars, ticks,
                   handlers, writes, hostVars, relayVars, lastLoad>>

KeepaliveWriteHoldsGate ==
    /\ kaPc = "writing"
    /\ WriteJSON(Keepalive, ticks, PongEnvelope)
    /\ IF conn = "open" /\ linkUp THEN Unlock ELSE UNCHANGED mu
    /\ kaPc' = IF conn = "open" /\ linkUp THEN "waiting" ELSE "terminated"
    /\ UNCHANGED <<connVars, done, config, connectVars, readerVars, ticks,
                   handlers, hostVars, relayVars, lastLoad>>

\* WriteJSON, Unlock, and return when the write failed
KeepaliveWrite ==
    /\ kaPc = "writing"
    /\ WriteJSON(Keepalive, ticks, PongEnvelope)
    /\ Unlock
    /\ kaPc' = IF conn = "open" /\ linkUp THEN "waiting" ELSE "terminated"
    /\ UNCHANGED <<connVars, done, config, connectVars, readerVars, ticks,
                   handlers, hostVars, relayVars, lastLoad>>

(***************************************************************************)
(* The hosting process and the relay.                                      *)
(***************************************************************************)
\* Wait: <-c.done
WaitCall(w) ==
    /\ waitPc[w] = "idle"
    /\ waitPc' = [waitPc EXCEPT ![w] = "blocked"]
    /\ UNCHANGED <<waitRet, closes, closeRet, connVars, done, mu, config, connectVars, readerVars,
                   keepaliveVars, handlers, writes, relayVars, lastLoad>>

\* the error Wait returns once c.done is closed: return nil
WaitResult(reason) == "nil"

WaitReturn(w) ==
    /\ waitPc[w] = "blocked"
    /\ IsClosed(done)
    /\ waitPc' = [waitPc EXCEPT ![w] = "returned"]
    /\ waitRet' = [waitRet EXCEPT ![w] = WaitResult(rlExit)]
    /\ UNCHANGED <<closes, closeRet, connVars, done, mu, config, connectVars, readerVars,
                   keepaliveVars, handlers, writes, relayVars, lastLoad>>

\* conn.Close() of the transport: the first call closes it and returns nil,
\* a call on a connection that is closed already returns the error of the
\* network layer
ErrClosed == "use of closed network connection"

ConnClose(c) == IF c = "closed" THEN ErrClosed ELSE "nil"

CloseSignals ==
    /\ closes < closeLimit
    /\ closes' = closes + 1
    /\ conn' = IF conn # "nil" THEN "closed" ELSE conn
    /\ closeRet' = IF conn # "nil" THEN ConnClose(conn) ELSE "nil"
    /\ done' = "closed"
    /\ UNCHANGED <<linkUp, mu, config, connectVars, readerVars,
                   keepaliveVars, handlers, writes, waitPc, waitRet,
                   relayVars, lastLoad>>

\* Close: c.conn.Close() unless c.conn is nil
Close ==
    /\ closes < closeLimit
    /\ closes' = closes + 1
    /\ conn' = IF conn # "nil" THEN "closed" ELSE conn
    /\ closeRet' = IF conn # "nil" THEN ConnClose(conn) ELSE "nil"
    /\ UNCHANGED <<linkUp, done, mu, config, connectVars, readerVars,
                   keepaliveVars, handlers, writes, waitPc, waitRet,
                   relayVars, lastLoad>>

\* the transport breaks without a close frame
LinkDown ==
    /\ conn = "open"
    /\ linkUp
    /\ linkUp' = FALSE
    /\ UNCHANGED <<conn, done, mu, config, connectVars, readerVars,
                   keepaliveVars, handlers, writes, hostVars, relayVars, lastLoad>>

\* OnClientConnected(cb), with a callback or with nil: a plain store to the
\* field, at any time
OnClientConnected(cb) ==
    /\ onClientConnected' = cb
    /\ UNCHANGED <<connVars, done, mu, config, connectVars, readerVars, keepaliveVars,
                   handlers, writes, hostVars, relayFrames, readLimit, handlerErrs,
                   invokeResults, closeLimit, exited, others, lastLoad>>

\* the host calls Connect once more on the same Client, after its last
\* Connect call has returned: nothing in Connect looks at the loops or the
\* handlers of that call
ConnectAgain ==
    /\ connectPc = "returned"
    /\ dials < MaxConnects
    /\ connectPc' = "idle"
    /\ connectRet' = NoReturn
    /\ UNCHANGED <<connVars, done, mu, config, dials, dialStatus, handshake, tunnelURL,
                   readerVars, keepaliveVars, handlers, writes, hostVars, relayVars,
                   lastLoad>>

\* rlPc, rlExit, msg and rlOn describe one of the goroutines that run
\* handleMessages and others holds the rest; which of them is the described
\* one is a matter of the description and not of the program. This step
\* exchanges it for one that can run, so that each of them takes its steps
SwitchReader(i) ==
    /\ others[i].k = "reader"
    /\ others[i].pc \notin {"terminated", "panicked"}
    /\ rlPc' = others[i].pc
    /\ rlExit' = others[i].exit
    /\ msg' = others[i].msg
    /\ rlOn' = others[i].on
    /\ others' = [others EXCEPT ![i] = OtherReader(rlPc, rlExit, msg, rlOn)]
    /\ UNCHANGED <<connVars, done, mu, config, connectVars, reads, pings, notified,
                   keepaliveVars, handlers, writes, hostVars, envVars, lastLoad>>

\* the same for the goroutines that run keepalive
SwitchKeepalive(i) ==
    /\ others[i].k = "keepalive"
    /\ others[i].pc # "terminated"
    /\ kaPc' = others[i].pc
    /\ others' = [others EXCEPT ![i] = OtherKeepalive(kaPc)]
    /\ UNCHANGED <<connVars, done, mu, config, connectVars, readerVars, ticks,
                   handlers, writes, hostVars, envVars, lastLoad>>

\* mcp.Server.UpdateConfig: the registry is replaced as a whole
UpdateConfig(newCfg) ==
    /\ config' = newCfg
    /\ UNCHANGED <<connVars, done, mu, connectVars, readerVars, keepaliveVars,
                   handlers, writes, hostVars, relayVars>>

\* what config.Load may yield when the configuration file has changed
LoadFailed == NoConfig
LoadResults == {InitialConfig, ReloadedConfig, LoadFailed}

reloadConfigFallsBack ==
    \E newCfg \in LoadResults :
        IF newCfg = LoadFailed
        THEN lastLoad' = "failed" /\ UpdateConfig(InitialConfig)
        ELSE lastLoad' = "ok" /\ UpdateConfig(newCfg)

\* reloadConfig: a failed load is reported and leaves the registry alone
reloadConfig ==
    \E newCfg \in LoadResults :
        IF newCfg = LoadFailed
        THEN /\ lastLoad' = "failed"
             /\ UNCHANGED <<connVars, done, mu, config, connectVars, readerVars,
                            keepaliveVars, handlers, writes, hostVars, relayVars>>
        ELSE /\ lastLoad' = "ok"
             /\ UpdateConfig(newCfg)

Next ==
    \/ ConnectDial
    \/ ConnectHandshake
    \/ ConnectGoKeepalive
    \/ ConnectReturn
    \/ ReadFrame
    \/ ClientConnectedCall
    \/ ReadFail
    \/ PongLock
    \/ PongWrite
    \/ \E i \in DOMAIN handlers : HandlerBegin(i)
    \/ \E i \in DOMAIN handlers : HandlerReturn(i)
    \/ \E i \in DOMAIN handlers : HandlerLock(i)
    \/ \E i \in DOMAIN handlers : HandlerWrite(i)
    \/ KeepaliveTick
    \/ KeepaliveDone
    \/ KeepaliveLock
    \/ KeepaliveWrite
    \/ \E w \in Waiters : WaitCall(w)
    \/ \E w \in Waiters : WaitReturn(w)
    \/ Close
    \/ LinkDown


\* a session whose relay sends requests and pings only
NextRpc ==
    \/ ConnectDial
    \/ ConnectHandshake
    \/ ConnectGoKeepalive
    \/ ConnectReturn
    \/ ReadFrame
    \/ ReadFail
    \/ PongLock
    \/ PongWrite
    \/ \E i \in DOMAIN handlers : HandlerBegin(i)
    \/ \E i \in DOMAIN handlers : HandlerReturn(i)
    \/ \E i \in DOMAIN handlers : HandlerLock(i)
    \/ \E i \in DOMAIN handlers : HandlerWrite(i)
    \/ KeepaliveTick
    \/ KeepaliveDone
    \/ KeepaliveLock
    \/ KeepaliveWrite
    \/ \E w \in Waiters : WaitCall(w)
    \/ \E w \in Waiters : WaitReturn(w)
    \/ Close
    \/ LinkDown

Spec == Init /\ [][Next]_vars

SpecRpc == InitRpc /\ [][NextRpc]_vars

SpecServer == InitServer /\ [][NextRpc]_vars

SpecFaults == InitFaults /\ [][NextRpc]_vars


\* a session that reads two frames, under a scheduler that lets every
\* goroutine that can run make its step
InitLive ==
    /\ InitClient
    /\ relayFrames = ReconnectFrames
    /\ readLimit = 2
    /\ handlerErrs = {}
    /\ invokeResults = SessionResults
    /\ closeLimit = 1
    /\ onClientConnected = TRUE

\* the goroutine scheduler and the gate are fair: a write that was started
\* returns, a goroutine waiting for the free gate gets it, a ready case of
\* a select is taken, and a read on a connection that was closed returns
Fairness ==
    /\ WF_vars(ConnectGoKeepalive)
    /\ WF_vars(KeepaliveDone)
    /\ WF_vars(KeepaliveLock)
    /\ WF_vars(KeepaliveWrite)
    /\ WF_vars(PongLock)
    /\ WF_vars(PongWrite)
    /\ WF_vars(\E i \in DOMAIN handlers : HandlerWrite(i))
    /\ WF_vars(ReadFail /\ conn = "closed")
    /\ WF_vars(\E w \in Waiters : WaitReturn(w))

SpecLive == InitLive /\ [][NextRpc]_vars /\ Fairness

\* a goroutine has panicked and has run its deferred calls: the nil call of
\* the callback, or a second close of c.done
Panicked == rlPc = "panicked" \/ done = "panic"

\* the panic is not recovered: the runtime ends the process, at some point
\* after the deferred calls of the panicking goroutine; until then the other
\* goroutines run on
ProcessExit ==
    /\ Panicked
    /\ ~exited
    /\ exited' = TRUE
    /\ UNCHANGED <<connVars, tunnelURL, done, mu, config, connectPc, connectRet, dials,
                   dialStatus, handshake, readerVars, keepaliveVars, handlers, writes,
                   hostVars, relayFrames, readLimit, handlerErrs, invokeResults,
                   closeLimit, onClientConnected, others, lastLoad>>

\* the process has not exited
Alive == ~exited

\* a host that sets and clears the callback at any time
NextObserver ==
    \/ Alive /\ \E cb \in BOOLEAN : OnClientConnected(cb)
    \/ Alive /\ ConnectDial
    \/ Alive /\ ConnectHandshake
    \/ Alive /\ ConnectGoKeepalive
    \/ Alive /\ ConnectReturn
    \/ Alive /\ ReadFrame
    \/ Alive /\ ClientConnectedCall
    \/ Alive /\ ReadFail
    \/ Alive /\ ReadLoopUnwind
    \/ Alive /\ PongLock
    \/ Alive /\ PongWrite
    \/ Alive /\ \E i \in DOMAIN handlers : HandlerBegin(i)
    \/ Alive /\ \E i \in DOMAIN handlers : HandlerReturn(i)
    \/ Alive /\ \E i \in DOMAIN handlers : HandlerLock(i)
    \/ Alive /\ \E i \in DOMAIN handlers : HandlerWrite(i)
    \/ Alive /\ KeepaliveTick
    \/ Alive /\ KeepaliveDone
    \/ Alive /\ KeepaliveLock
    \/ Alive /\ KeepaliveWrite
    \/ Alive /\ \E w \in Waiters : WaitCall(w)
    \/ Alive /\ \E w \in Waiters : WaitReturn(w)
    \/ Alive /\ Close
    \/ Alive /\ LinkDown
    \/ ProcessExit

SpecObserver == InitObserver /\ [][NextObserver]_vars

\* a host that calls Connect again
NextReconnect ==
    \/ Alive /\ ConnectDial
    \/ Alive /\ ConnectHandshake
    \/ Alive /\ ConnectGoKeepalive
    \/ Alive /\ ConnectReturn
    \/ Alive /\ ConnectAgain
    \/ Alive /\ \E i \in DOMAIN others : SwitchReader(i)
    \/ Alive /\ \E i \in DOMAIN others : SwitchKeepalive(i)
    \/ Alive /\ ReadFrame
    \/ Alive /\ ReadFail
    \/ Alive /\ PongLock
    \/ Alive /\ PongWrite
    \/ Alive /\ \E i \in DOMAIN handlers : HandlerBegin(i)
    \/ Alive /\ \E i \in DOMAIN handlers : HandlerReturn(i)
    \/ Alive /\ \E i \in DOMAIN handlers : HandlerLock(i)
    \/ Alive /\ \E i \in DOMAIN handlers : HandlerWrite(i)
    \/ Alive /\ KeepaliveTick
    \/ Alive /\ KeepaliveDone
    \/ Alive /\ KeepaliveLock
    \/ Alive /\ KeepaliveWrite
    \/ Alive /\ \E w \in Waiters : WaitCall(w)
    \/ Alive /\ \E w \in Waiters : WaitReturn(w)
    \/ Alive /\ Close
    \/ Alive /\ LinkDown
    \/ ProcessExit

SpecReconnect == InitReconnect /\ [][NextReconnect]_vars

\* the session with the watcher of the configuration file at work; its
\* host, cmd/gantz, waits for the session and never calls Close
NextReload ==
    \/ reloadConfig
    \/ ConnectDial
    \/ ConnectHandshake
    \/ ConnectGoKeepalive
    \/ ConnectReturn
    \/ ReadFrame
    \/ ReadFail
    \/ PongLock
    \/ PongWrite
    \/ \E i \in DOMAIN handlers : HandlerBegin(i)
    \/ \E i \in DOMAIN handlers : HandlerReturn(i)
    \/ \E i \in DOMAIN handlers : HandlerLock(i)
    \/ \E i \in DOMAIN handlers : HandlerWrite(i)
    \/ KeepaliveTick
    \/ KeepaliveDone
    \/ KeepaliveLock
    \/ KeepaliveWrite
    \/ \E w \in Waiters : WaitCall(w)
    \/ \E w \in Waiters : WaitReturn(w)
    \/ LinkDown

SpecReload == InitReload /\ [][NextReload]_vars

(***************************************************************************)
(* Properties.                                                             *)
(***************************************************************************)
HandlerIds == DOMAIN handlers

\* the activities inside a write on the connection
Writing ==
    {Handler(i) : i \in {j \in HandlerIds : handlers[j].pc = "writing"}}
        \cup (IF rlPc = "pong_write" THEN {Reader} ELSE {})
        \cup (IF kaPc = "writing" THEN {Keepalive} ELSE {})

ResponseWrites == {w \in writes : w.env.type = "response"}
PongsOf(who) == {w \in writes : w.env.type = "pong" /\ w.by = who}


\* C1: every response envelope written carries the request_id of the request
\* envelope whose handler produced it, and that handler's own RPC response,
\* whatever the number of handlers and the order in which they complete.
C1_ResponseCorrelation ==
    \A w \in ResponseWrites :
        /\ w.by.k = "handler"
        /\ w.by.i \in HandlerIds
        /\ w.env.request_id = handlers[w.by.i].msg.request_id
        /\ w.env.payload = Marshal(handlers[w.by.i].resp)

\* a later request (r2) is answered while the earlier one (r1) has not
\* written its response yet
C1_Witness ==
    \E i, j \in HandlerIds :
        /\ i < j
        /\ handlers[i].msg.request_id = "r1"
        /\ handlers[j].msg.request_id = "r2"
        /\ handlers[i].pc = "writing"
        /\ \E w \in ResponseWrites : w.by = Handler(j) /\ w.ok /\ w.env.request_id = "r2"

\* C2: at most one activity (a handler writing its response, the read loop
\* writing a pong, the liveness loop writing its frame) is inside a write on
\* the connection, and it is the holder of the gate.
C2_WriteExclusion ==
    /\ Cardinality(Writing) <= 1
    /\ \A a \in Writing : mu = a

\* a handler is writing while the read loop and the liveness loop both wait
\* for the gate
C2_Witness ==
    /\ \E i \in HandlerIds : handlers[i].pc = "writing"
    /\ rlPc = "pong_lock"
    /\ kaPc = "lock"

\* C3: while a handler is blocked in the invoker the read loop is not held
\* up by it: it can read the next envelope whenever the relay has one, and
\* every other handler can take its next step (start, take the free gate,
\* write); the blocked handler does not hold the gate.
C3_InvokerDoesNotStall ==
    \A i \in HandlerIds :
        handlers[i].pc = "invoking" =>
            /\ mu # Handler(i)
            /\ (rlPc = "reading" /\ conn = "open" /\ linkUp /\ reads < readLimit)
                   => ENABLED ReadFrame
            /\ \A j \in HandlerIds \ {i} :
                  /\ handlers[j].pc = "spawned" => ENABLED HandlerBegin(j)
                  /\ (handlers[j].pc = "lock" /\ mu = Free) => ENABLED HandlerLock(j)
                  /\ handlers[j].pc = "writing" => ENABLED HandlerWrite(j)

\* the first request is still in the invoker, a request read after it has
\* been answered
C3_Witness ==
    /\ Len(handlers) = 2
    /\ handlers[1].pc = "invoking"
    /\ handlers[2].pc = "done"
    /\ \E w \in ResponseWrites : w.by = Handler(2) /\ w.ok

\* C4: the read loop answers a ping itself before it reads on: whenever it
\* is at a read (or has returned) it has made one pong write per ping read,
\* and while it waits to write a pong only an activity inside a write can
\* hold it up, never a handler that is decoding, dispatching or invoking.
C4_PongInline ==
    /\ rlPc \in {"reading", "terminated"} => Cardinality(PongsOf(Reader)) = pings
    /\ rlPc \in {"pong_lock", "pong_write"} =>
           /\ msg.type = "ping"
           /\ Cardinality(PongsOf(Reader)) = pings - 1
    /\ (rlPc = "pong_lock" /\ Writing = {}) => ENABLED PongLock
    /\ rlPc = "pong_write" => ENABLED PongWrite

\* the pong of a ping read after a request is written while that request is
\* still in the invoker
C4_Witness ==
    /\ Len(handlers) = 1
    /\ handlers[1].pc = "invoking"
    /\ rlPc = "reading"
    /\ pings = 1
    /\ \E w \in PongsOf(Reader) : w.ok

\* the payload is an RPC request with an id member that is a number or a string
CarriesID(p) == p.k = "req" /\ p.id.k \in {"num", "str"}

\* C5: the RPC response written for a request that carries an id carries
\* the identical id, for results and for errors of every kind (method not
\* found, invalid params, the session's internal error).
C5_IdEchoed ==
    \A w \in ResponseWrites :
        CarriesID(handlers[w.by.i].msg.payload) =>
            w.env.payload.id = handlers[w.by.i].msg.payload.id

\* the dial succeeded and the first frame was missing or not "registered"
HandshakeFailed ==
    /\ connectPc = "returned"
    /\ conn # "nil"
    /\ handshake.type # "registered"

\* C6: after a handshake whose first frame is unreadable or not registered,
\* Connect has returned an error, the connection is closed, and neither the
\* read loop nor the liveness loop (nor anything they would do) exists.
C6_HandshakeFailure ==
    HandshakeFailed =>
        /\ connectRet.err # "nil"
        /\ connectRet.url = ""
        /\ conn = "closed"
        /\ rlPc = "none"
        /\ kaPc = "none"
        /\ handlers = <<>>
        /\ writes = {}
        /\ done = "open"

\* the first frame was of type error
C6_Witness ==
    /\ HandshakeFailed
    /\ handshake.type = "error"
    /\ connectRet.err = "unexpected message type"

\* C7: after a failed dial Connect has returned an error, which is the
\* version-rejected one exactly when the dial's response had the
\* upgrade-required status; the session has no connection and no loop.
C7_DialFailure ==
    (connectPc = "returned" /\ conn = "nil") =>
        /\ connectRet.err \in {"version outdated - run: gantz update", "dial relay"}
        /\ connectRet.err = "version outdated - run: gantz update"
               <=> dialStatus = StatusUpgradeRequired
        /\ connectRet.url = ""
        /\ rlPc = "none"
        /\ kaPc = "none"
        /\ handshake = NoFrame

\* the relay refused the dial with a status other than upgrade required
C7_Witness ==
    /\ connectPc = "returned"
    /\ conn = "nil"
    /\ dialStatus = 403
    /\ connectRet.err = "dial relay"

\* the steps of the Connect call
ConnectStep == connectPc' # connectPc

\* C8: after a registered frame Connect starts the read loop, then the
\* liveness loop, and nothing else, and returns the frame's tunnel URL with
\* a nil error; when it returns both loops have been started, and neither
\* the start of the liveness loop nor the return waits for anything: each is
\* possible wherever the loops stand, and leaves them where they stand.
C8_ConnectSuccess ==
    /\ [][/\ (ConnectStep /\ connectPc = "handshake" /\ handshake'.type = "registered") =>
                /\ rlPc = "none" /\ rlPc' = "reading"
                /\ kaPc = "none" /\ kaPc' = "none"
                /\ reads' = 0 /\ handlers' = <<>> /\ writes' = {}
                /\ done' = "open" /\ conn' = "open"
          /\ (ConnectStep /\ connectPc = "go_keepalive") =>
                /\ kaPc = "none" /\ kaPc' = "waiting" /\ ticks' = 0
                /\ <<rlPc, reads, handlers, writes, done, conn, mu>>' =
                       <<rlPc, reads, handlers, writes, done, conn, mu>>
          /\ (ConnectStep /\ connectPc = "return") =>
                /\ connectRet' = [url |-> handshake.tunnel_url, err |-> "nil"]
                /\ rlPc # "none" /\ kaPc # "none"
                /\ <<rlPc, kaPc, reads, ticks, handlers, writes, done, conn, mu>>' =
                       <<rlPc, kaPc, reads, ticks, handlers, writes, done, conn, mu>>]_vars
    /\ [](connectPc = "go_keepalive" => ENABLED ConnectGoKeepalive)
    /\ [](connectPc = "return" => ENABLED ConnectReturn)

\* Connect has returned the URL and neither loop has made a step
C8_Witness ==
    /\ connectPc = "returned"
    /\ connectRet = [url |-> TunnelURL, err |-> "nil"]
    /\ rlPc = "reading" /\ reads = 0
    /\ kaPc = "waiting" /\ ticks = 0

\* C9: the tunnel URL changes only in the step of Connect that reads the
\* registered frame, to that frame's tunnel_url; once Connect has returned
\* no step (frame, request, tick, Close, end of the read loop) changes it.
C9_URLSetOnce ==
    [][/\ tunnelURL' # tunnelURL =>
             /\ connectPc = "handshake" /\ connectPc' # "handshake"
             /\ handshake'.type = "registered"
             /\ tunnelURL' = handshake'.tunnel_url
       /\ connectPc \in {"go_keepalive", "return", "returned"} =>
             tunnelURL' = tunnelURL]_vars

\* a second registered frame with another URL was read, Close was called and
\* the read loop ended: URL() is still the URL of the handshake
C9_Witness ==
    /\ msg = RegisteredFrame(OtherURL)
    /\ rlPc = "terminated"
    /\ conn = "closed"
    /\ ticks > 0
    /\ tunnelURL = TunnelURL

\* C10: a Wait call has returned only if the read loop has terminated; once
\* it has terminated no Wait call is blocked any more (the receive on the
\* closed channel is ready); and while the read loop runs the signal is
\* unset, also when the liveness loop and every handler have ended.
C10_WaitFollowsReadLoop ==
    /\ \A w \in Waiters : waitPc[w] = "returned" => rlPc = "terminated"
    /\ rlPc = "terminated" =>
           /\ done = "closed"
           /\ \A w \in Waiters : waitPc[w] = "blocked" => ENABLED WaitReturn(w)
    /\ ReadLoopRunning =>
           /\ done = "open"
           /\ \A w \in Waiters : ~ENABLED WaitReturn(w)

\* Wait has returned after the read loop ended, the liveness loop having
\* ended before on a failed write
C10_Witness ==
    /\ waitPc["w1"] = "returned"
    /\ rlPc = "terminated"
    /\ kaPc = "terminated"
    /\ \E w \in PongsOf(Keepalive) : ~w.ok

\* the read loop ended on an error that ends the session: a frame that is no
\* envelope, or a read on a broken or closed connection
FatalExit == rlExit \in {"undecodable frame", "read error"}

\* C11: a Wait call that returned after the read loop ended on a
\* session-fatal error returned a non-nil error.
C11_WaitReportsFatalError ==
    \A w \in Waiters :
        (waitPc[w] = "returned" /\ FatalExit) => waitRet[w] # "nil"

\* C12: every Close call on a session that holds a connection, be it open or
\* closed already by an earlier Close or by the failure path of the
\* handshake, has the outcome of a first call: the step returns nil and
\* leaves the connection closed.
C12_CloseIdempotent ==
    [][(closes' = closes + 1 /\ conn # "nil") =>
          /\ closeRet' = "nil"
          /\ conn' = "closed"]_vars

\* the liveness write keepalive is about to make fails
LivenessWriteFails == kaPc = "writing" /\ ~(conn = "open" /\ linkUp)

\* C13: the step of a liveness write that fails ends the liveness loop, which never
\* writes again, and that step changes nothing else: the read loop stays
\* where it is, the completion signal and the connection are untouched, the
\* handlers are untouched, and the write gate is free for them.
C13_LivenessLoopEndsAlone ==
    [][/\ (LivenessWriteFails /\ kaPc' # kaPc) =>
            /\ kaPc' = "terminated"
            /\ mu' = Free
            /\ <<rlPc, rlExit, done, conn, handlers, waitPc>>' =
                   <<rlPc, rlExit, done, conn, handlers, waitPc>>
       /\ kaPc = "terminated" =>
            /\ kaPc' = "terminated"
            /\ PongsOf(Keepalive)' = PongsOf(Keepalive)
            /\ mu # Keepalive]_vars

C13_Witness ==
    /\ kaPc = "terminated"
    /\ \E w \in PongsOf(Keepalive) : ~w.ok
    /\ ReadLoopRunning
    /\ done = "open"
    /\ \E i \in HandlerIds : handlers[i].pc = "writing" /\ mu = Handler(i)

\* the frames handler i wrote
WritesOf(i) == {w \in writes : w.by = Handler(i)}

\* handler i has its answer
Answered(i) == handlers[i].pc \in {"lock", "writing", "done"}

\* C14: the handler of a request envelope whose payload is no RPC request
\* never calls the dispatcher or an invoker, answers with an RPC error of
\* code -32700 and no result, and once it is done it has written exactly one
\* frame, a response envelope with the request_id of its envelope and that
\* error.
C14_ParseError ==
    \A i \in HandlerIds :
        LET h == handlers[i] IN
        h.msg.payload.k # "req" =>
            /\ ~h.called /\ ~h.invoked /\ h.pc # "invoking"
            /\ Answered(i) =>
                  /\ h.resp.Error.set /\ h.resp.Error.Code = -32700
                  /\ h.resp.Result = NoResult
            /\ h.pc # "done" => WritesOf(i) = {}
            /\ h.pc = "done" =>
                  /\ h.sent = 1
                  /\ Cardinality(WritesOf(i)) = 1
                  /\ \A w \in WritesOf(i) :
                        /\ w.env.type = "response"
                        /\ w.env.request_id = h.msg.request_id
                        /\ w.env.payload.hasError /\ ~w.env.payload.hasResult
                        /\ w.env.payload.error.Code = -32700

\* the undecodable request r2 is answered on the wire while the handler of
\* r1 is still in its invoker
C14_Witness ==
    \E i, j \in HandlerIds :
        /\ handlers[i].msg.payload.k # "req"
        /\ handlers[i].pc = "done"
        /\ \E w \in WritesOf(i) : w.ok /\ w.env.payload.error.Code = -32700
        /\ handlers[j].pc = "invoking"

\* C15: a handler whose dispatcher call returned an error answers with the
\* RPC error -32603 whose message is that error's text and with no result,
\* and the one frame it writes is a response envelope with the request_id of
\* its request envelope carrying that error.
C15_InternalError ==
    \A i \in HandlerIds :
        LET h == handlers[i] IN
        h.err # "" =>
            /\ h.called /\ Answered(i)
            /\ h.resp.Error = MCPError(-32603, <<h.err>>)
            /\ h.resp.Result = NoResult
            /\ h.pc = "done" =>
                  /\ Cardinality(WritesOf(i)) = 1
                  /\ \A w \in WritesOf(i) :
                        /\ w.env.type = "response"
                        /\ w.env.request_id = h.msg.request_id
                        /\ w.env.payload.hasError /\ ~w.env.payload.hasResult
                        /\ w.env.payload.error = MCPError(-32603, <<h.err>>)

\* the dispatcher failed after its invoker ran, and the -32603 response
\* reached the relay
C15_Witness ==
    \E i \in HandlerIds :
        /\ handlers[i].err = "handler failed"
        /\ handlers[i].pc = "done"
        /\ \E w \in WritesOf(i) :
              w.ok /\ w.env.request_id = "r1" /\ w.env.payload.error.Code = -32603

\* the RPC request handler i decoded
RequestOf(i) == MCPRequest(handlers[i].msg.payload)

\* exactly one of result and error is set in a response
OneOfResultError(resp) == resp.Error.set # (resp.Result.k # "nil")

\* C16: every call of the dispatcher returns without an error and with a
\* response, whatever the id, method, params and invocation result: the
\* handler's answer is the dispatcher's response, which holds a result or an
\* RPC error, and never the session's -32603.
C16_DispatcherNeverFails ==
    \A i \in HandlerIds :
        LET h == handlers[i] IN
        (h.called /\ Answered(i)) =>
            /\ h.err = ""
            /\ h.resp = HandleRequest(RequestOf(i), config, h.result)
            /\ h.resp # NoResponse
            /\ OneOfResultError(h.resp)
            /\ h.resp.Error.set => h.resp.Error.Code # -32603

\* a tools/call whose invoker failed with status -1 is answered with result
\* content
C16_Witness ==
    \E i \in HandlerIds :
        /\ handlers[i].called /\ handlers[i].invoked
        /\ handlers[i].result.ExitCode = -1
        /\ handlers[i].pc = "done"
        /\ \E w \in WritesOf(i) : w.ok /\ w.env.payload.hasResult

\* the methods the dispatcher routes
Methods == {"initialize", "tools/list", "tools/call", "ping"}

\* a registry that differs from the session's in its name and its actions
OtherRegistry == [InitialConfig EXCEPT !.Name = "other", !.Tools = Tail(@)]

\* C17: a decoded request whose method is none of the four routed ones never
\* reaches an invoker and is answered with the RPC error -32601 whose message
\* ends with the method name; that answer is the same for another registry
\* and for any invocation result.
C17_MethodNotFound ==
    \A i \in HandlerIds :
        LET h == handlers[i]
            req == RequestOf(i)
        IN (h.msg.payload.k = "req" /\ req.Method \notin Methods) =>
              /\ ~h.invoked /\ h.pc # "invoking" /\ h.result = NoInvocation
              /\ Answered(i) =>
                    /\ h.resp.Result = NoResult
                    /\ h.resp.Error.set /\ h.resp.Error.Code = -32601
                    /\ h.resp.Error.Message[Len(h.resp.Error.Message)] = req.Method
                    /\ \A r \in invokeResults :
                          h.resp = HandleRequest(req, OtherRegistry, r)

\* the unknown method tools/run, naming the existing action hello, was
\* answered on the wire with -32601
C17_Witness ==
    \E i \in HandlerIds :
        /\ RequestOf(i).Method = "tools/run"
        /\ RequestOf(i).Params = ParamsCall("hello")
        /\ handlers[i].pc = "done"
        /\ \E w \in WritesOf(i) : w.ok /\ w.env.payload.error.Code = -32601

\* the params decode to {name, arguments} and name is the name of an action
\* of the registry
NamesAction(params, cfg) ==
    /\ params.k \in {"null", "object"}
    /\ \E t \in 1..Len(cfg.Tools) : cfg.Tools[t].Name = params.name

\* C18: the handler of a tools/call request reaches an invoker only if the
\* params decode and name an action of the registry exactly; otherwise no
\* invoker runs and the answer is the RPC error -32602 without a result,
\* whose message ends with the requested name when the params decoded.
C18_ToolsCallGuard ==
    \A i \in HandlerIds :
        LET h == handlers[i]
            req == RequestOf(i)
        IN (h.msg.payload.k = "req" /\ req.Method = "tools/call") =>
              /\ (h.invoked \/ h.pc = "invoking" \/ h.result # NoInvocation)
                    => NamesAction(req.Params, config)
              /\ (~NamesAction(req.Params, config) /\ Answered(i)) =>
                    /\ h.resp.Result = NoResult
                    /\ h.resp.Error.set /\ h.resp.Error.Code = -32602
                    /\ req.Params.k \in {"null", "object"} =>
                          h.resp.Error.Message[Len(h.resp.Error.Message)]
                             = req.Params.name

\* a tools/call for "Hello", which differs from the action hello in case
\* only, was answered on the wire with -32602 and no invoker ran
C18_Witness ==
    \E i \in HandlerIds :
        /\ RequestOf(i).Method = "tools/call"
        /\ RequestOf(i).Params = ParamsCall("Hello")
        /\ ~handlers[i].invoked
        /\ handlers[i].pc = "done"
        /\ \E w \in WritesOf(i) :
              /\ w.ok
              /\ w.env.payload.error = MCPError(-32602, <<"Tool not found: ", "Hello">>)

\* C19: every RPC response a handler holds, from the dispatcher or from the
\* session's -32700 and -32603 paths, and every response payload written on
\* the connection has exactly one of result and error.
C19_ResultXorError ==
    /\ \A i \in HandlerIds : Answered(i) => OneOfResultError(handlers[i].resp)
    /\ \A w \in ResponseWrites : w.env.payload.hasResult # w.env.payload.hasError

\* a ping was answered on the wire with the empty result and no error
C19_Witness ==
    \E i \in HandlerIds :
        /\ RequestOf(i).Method = "ping"
        /\ handlers[i].pc = "done"
        /\ \E w \in WritesOf(i) :
              /\ w.ok
              /\ w.env.payload.hasResult /\ ~w.env.payload.hasError
              /\ w.env.payload.result = PingResult

\* C20: the response of a tools/call that ran an invoker is result content
\* whose isError is TRUE exactly when the invoker's ExitCode is not 0,
\* whatever its Error and Output.
C20_IsErrorIffExitCode ==
    \A i \in HandlerIds :
        LET h == handlers[i] IN
        (h.invoked /\ Answered(i) /\ h.err = "") =>
            /\ ~h.resp.Error.set
            /\ h.resp.Result.k = "content"
            /\ h.resp.Result.isError = (h.result.ExitCode # 0)
            /\ \A w \in WritesOf(i) :
                  w.env.payload.result.isError = (h.result.ExitCode # 0)

\* an invocation with status 1, output and no error object was answered on
\* the wire with isError
C20_Witness ==
    \E i \in HandlerIds :
        /\ handlers[i].invoked
        /\ handlers[i].result = Result("not found", 1, "")
        /\ handlers[i].pc = "done"
        /\ \E w \in WritesOf(i) : w.ok /\ w.env.payload.result.isError

\* the text of the one content block the spec asks for
ContentText(result) ==
    IF result.Error # "" /\ result.Output = ""
    THEN <<"Error: ", result.Error>>
    ELSE <<result.Output>>

\* C21: the response of a tools/call that ran an invoker is a result and no
\* RPC error; its content is one text block, "Error: " followed by the error
\* text when the invoker reported an error and no output, and the output in
\* every other case, also for a non-zero ExitCode and for an error reported
\* together with output; the payload written carries the same.
C21_ContentOfInvocation ==
    \A i \in HandlerIds :
        LET h == handlers[i] IN
        (h.invoked /\ Answered(i) /\ h.err = "") =>
            /\ ~h.resp.Error.set
            /\ h.resp.Result.k = "content"
            /\ h.resp.Result.text = ContentText(h.result)
            /\ \A w \in WritesOf(i) :
                  /\ w.env.payload.hasResult /\ ~w.env.payload.hasError
                  /\ w.env.payload.result.text = ContentText(h.result)

\* an invocation that failed with status 2, an error and the output "oops"
\* was answered on the wire with the output as content
C21_Witness ==
    \E i \in HandlerIds :
        /\ handlers[i].invoked
        /\ handlers[i].result = Result("oops", 2, "exit status 2")
        /\ handlers[i].pc = "done"
        /\ \E w \in WritesOf(i) : w.ok /\ w.env.payload.result.text = <<"oops">>

\* the indices of the required parameters among ps
RequiredAt(ps) == {i \in 1..Len(ps) : ps[i].Required}

\* schema is the projection of the parameter list ps: one property per
\* parameter, and the required names in declaration order
ProjectsParameters(schema, ps) ==
    /\ schema.type = "object"
    /\ DOMAIN schema.properties = {ps[i].Name : i \in 1..Len(ps)}
    /\ Cardinality(DOMAIN schema.properties) = Len(ps)
    /\ \A i \in 1..Len(ps) :
          LET prop == schema.properties[ps[i].Name] IN
          /\ prop.type = ps[i].Type
          /\ prop.description = ps[i].Description
          /\ prop.hasDefault = (ps[i].Default # "")
          /\ prop.hasDefault => prop.default = ps[i].Default
    /\ schema.hasRequired = (RequiredAt(ps) # {})
    /\ Len(schema.required) = Cardinality(RequiredAt(ps))
    /\ \A i \in RequiredAt(ps) :
          schema.required[Cardinality({j \in RequiredAt(ps) : j <= i})] = ps[i].Name

\* C22: the answer to tools/list is a result with one entry per action of
\* the registry in registry order, each with the action's name and
\* description and the projection of its parameters.
C22_ToolsListProjection ==
    \A i \in HandlerIds :
        LET h == handlers[i] IN
        (h.msg.payload.k = "req" /\ RequestOf(i).Method = "tools/list"
           /\ Answered(i) /\ h.err = "") =>
            /\ ~h.resp.Error.set
            /\ h.resp.Result.k = "tools"
            /\ Len(h.resp.Result.tools) = Len(config.Tools)
            /\ \A t \in 1..Len(config.Tools) :
                  /\ h.resp.Result.tools[t].name = config.Tools[t].Name
                  /\ h.resp.Result.tools[t].description = config.Tools[t].Description
                  /\ ProjectsParameters(h.resp.Result.tools[t].inputSchema,
                                        config.Tools[t].Parameters)

\* a tools/list was answered on the wire: hello with the required names
\* name and times in that order, fetch without a required array
C22_Witness ==
    \E i \in HandlerIds :
        /\ RequestOf(i).Method = "tools/list"
        /\ handlers[i].pc = "done"
        /\ \E w \in WritesOf(i) :
              /\ w.ok
              /\ w.env.payload.result.tools[1].inputSchema.required = <<"name", "times">>
              /\ ~w.env.payload.result.tools[2].inputSchema.hasRequired

\* the registries the session ever serves from
Registries == {InitialConfig, ReloadedConfig}

\* handler i of hs calls the dispatcher in the step to hs2
CallsDispatcher(hs, hs2, i) == i \in DOMAIN hs /\ ~hs[i].called /\ hs2[i].called

\* the answers of the handlers hs to tools/list and the lookups of their
\* tools/call each come from the one registry the handler read
FromOneSnapshot(hs) ==
    \A i \in DOMAIN hs :
        LET h == hs[i]
            req == MCPRequest(h.msg.payload)
        IN h.called =>
              /\ h.cfg \in Registries
              /\ (req.Method = "tools/list" /\ h.pc \in {"lock", "writing", "done"}) =>
                    h.resp = handleToolsList(req, h.cfg)
              /\ req.Method = "tools/call" =>
                    h.invoked = (GetTool(h.cfg, req.Params.name) # 0)

\* C23: a handler that calls the dispatcher reads the registry that is
\* current at that step, whatever replacements came before, and a tools/list
\* answer and a tools/call lookup are those of that one registry as a whole.
C23_ReadsCurrentRegistry ==
    [][/\ \A i \in HandlerIds :
             CallsDispatcher(handlers, handlers', i) => handlers'[i].cfg = config
       /\ FromOneSnapshot(handlers')]_vars

\* after a replacement a tools/list was answered on the wire with the new
\* registry, while an earlier request had read the old one
C23_Witness ==
    \E i, j \in HandlerIds :
        /\ i < j
        /\ handlers[i].called /\ handlers[i].cfg = InitialConfig
        /\ RequestOf(j).Method = "tools/list"
        /\ handlers[j].cfg = ReloadedConfig
        /\ handlers[j].pc = "done"
        /\ \E w \in WritesOf(j) :
              /\ w.ok
              /\ w.env.payload = Marshal(handleToolsList(RequestOf(j), ReloadedConfig))

\* C24: a step that replaces the registry changes no handler, write or gate;
\* a handler keeps the registry it read, its invoker can still return, and
\* its answer is the dispatcher's for the registry it read, also when the
\* current registry is another one by then.
C24_InFlightKeepsSnapshot ==
    [][/\ config' # config =>
             <<handlers, writes, mu, done, conn>>' = <<handlers, writes, mu, done, conn>>
       /\ \A i \in HandlerIds :
             /\ handlers[i].called => handlers'[i].cfg = handlers[i].cfg
             /\ (handlers'[i].called /\ handlers'[i].pc \in {"lock", "writing", "done"}) =>
                   handlers'[i].resp =
                      HandleRequest(RequestOf(i), handlers'[i].cfg, handlers'[i].result)
             /\ handlers[i].pc = "invoking" => ENABLED HandlerReturn(i)]_vars

\* the invoker of a tools/call for fetch is still running although the
\* registry was replaced by one without fetch, which a later tools/list has
\* already been answered from
C24_Witness ==
    \E i, j \in HandlerIds :
        /\ RequestOf(i).Params = ParamsCall("fetch")
        /\ handlers[i].pc = "invoking"
        /\ handlers[i].cfg = InitialConfig
        /\ config = ReloadedConfig
        /\ handlers[j].cfg = ReloadedConfig
        /\ handlers[j].pc = "done"

\* the codes of the RPC errors the session and the dispatcher answer with
RpcErrorCodes == {-32700, -32601, -32602, -32603}

\* handler i has an RPC error for an answer, or its invocation failed
Faulted(i) ==
    /\ Answered(i)
    /\ \/ handlers[i].resp.Error.set /\ handlers[i].resp.Error.Code \in RpcErrorCodes
       \/ handlers[i].invoked /\ handlers[i].result.ExitCode # 0

\* C25: a step of a request handler, whatever its answer, leaves the read
\* loop, the completion signal and the connection as they are; with handlers
\* that ended in an RPC error or a failed invocation the read loop still
\* reads the next envelope the relay has, and it ends only by a step of its
\* own.
C25_RpcErrorsNotFatal ==
    [][/\ (\E i \in HandlerIds : handlers'[i] # handlers[i]) =>
             <<rlPc, rlExit, done, conn, linkUp, reads>>' =
                <<rlPc, rlExit, done, conn, linkUp, reads>>
       /\ ((\E i \in HandlerIds : Faulted(i))
             /\ rlPc = "reading" /\ conn = "open" /\ linkUp /\ reads < readLimit)
            => ENABLED ReadFrame
       /\ (rlPc # "terminated" /\ rlPc' = "terminated") => handlers' = handlers]_vars

\* the first request was answered with -32603, a request read later was
\* answered with -32601 on the wire, and the session is still up
C25_Witness ==
    /\ Len(handlers) = 2
    /\ handlers[1].pc = "done" /\ handlers[1].resp.Error.Code = -32603
    /\ handlers[2].pc = "done" /\ handlers[2].resp.Error.Code = -32601
    /\ \E w \in WritesOf(2) : w.ok
    /\ ReadLoopRunning
    /\ done = "open"

\* why a read of the read loop may fail
ReadFailures == {"close frame", "undecodable frame", "read error"}

\* C26: a failed read, whatever its kind, ends the read loop in that step
\* and sets the completion signal; the step reads and dispatches nothing, and
\* a read loop that has ended stays ended: it reads no frame, starts no
\* handler, calls no callback and answers no ping afterwards.
C26_ReadFailureEndsLoop ==
    [][/\ rlExit' # "" =>
             /\ rlExit' \in ReadFailures
             /\ rlPc' = "terminated"
             /\ done' = "closed"
       /\ (rlPc # "terminated" /\ rlPc' = "terminated") =>
             /\ rlPc = "reading"
             /\ rlExit' # ""
             /\ <<msg, reads, pings, notified, handlers, writes>>' =
                   <<msg, reads, pings, notified, handlers, writes>>
       /\ rlPc = "terminated" =>
             /\ <<rlPc, rlExit, msg, reads, pings, notified, tunnelURL>>' =
                   <<rlPc, rlExit, msg, reads, pings, notified, tunnelURL>>
             /\ Len(handlers') = Len(handlers)
             /\ PongsOf(Reader)' = PongsOf(Reader)]_vars

\* the read loop ended on an undecodable frame after one envelope although
\* the connection is up and the relay would send more
C26_Witness ==
    /\ rlPc = "terminated"
    /\ rlExit = "undecodable frame"
    /\ done = "closed"
    /\ reads = 1 /\ reads < readLimit
    /\ conn = "open" /\ linkUp

\* C27: the read loop starts one handler for the request envelope it read,
\* and every handler, also one whose RPC request has no id, has attempted
\* exactly one write once it is done and none before: a response envelope
\* with the request_id of its envelope; no other response is written.
C27_OneResponsePerRequest ==
    /\ (msg.type = "request" /\ rlPc # "none") =>
           /\ Len(handlers) >= 1
           /\ handlers[Len(handlers)].msg = msg
    /\ Len(handlers) <= reads
    /\ \A i \in HandlerIds :
          LET h == handlers[i] IN
          /\ h.msg.type = "request"
          /\ h.pc # "done" => (h.sent = 0 /\ WritesOf(i) = {})
          /\ h.pc = "done" =>
                /\ h.sent = 1
                /\ Cardinality(WritesOf(i)) = 1
                /\ \A w \in WritesOf(i) :
                      /\ w.env.type = "response"
                      /\ w.env.request_id = h.msg.request_id
    /\ \A w \in ResponseWrites : \E i \in HandlerIds : w \in WritesOf(i)

\* a tools/call without an id, which ran its invoker, was answered on the
\* wire
C27_Witness ==
    \E i \in HandlerIds :
        /\ handlers[i].msg.payload.k = "req"
        /\ handlers[i].msg.payload.id = IdAbsent
        /\ handlers[i].invoked
        /\ handlers[i].pc = "done"
        /\ \E w \in WritesOf(i) : w.ok /\ w.env.request_id = "r1"

\* the Connect call has returned an error
ConnectFailed == connectPc = "returned" /\ connectRet.err # "nil"

\* C28: the Connect call dials exactly once; it returns once and for all; the
\* read loop and the liveness loop start only in the Connect call whose
\* handshake succeeded, so none starts after a failed dial or handshake; a
\* loop that has ended stays ended, and a connection is never opened again.
C28_NoReconnect ==
    [][/\ connectPc' # "idle" => dials' = 1
       /\ connectPc = "returned" =>
             /\ connectPc' = "returned"
             /\ connectRet' = connectRet
             /\ dials' = dials
       /\ ConnectFailed => (rlPc' = "none" /\ kaPc' = "none" /\ conn' # "open")
       /\ (rlPc = "none" /\ rlPc' # "none") => connectPc = "handshake"
       /\ (kaPc = "none" /\ kaPc' # "none") =>
             (connectPc = "go_keepalive" /\ handshake.type = "registered")
       /\ rlPc = "terminated" => rlPc' = "terminated"
       /\ kaPc = "terminated" => kaPc' = "terminated"
       /\ conn # "open" => (conn' = "open" => connectPc = "idle")]_vars

\* both loops have ended, Wait has returned, and nothing has dialled again
C28_Witness ==
    /\ connectPc = "returned" /\ connectRet.err = "nil"
    /\ rlPc = "terminated"
    /\ kaPc = "terminated"
    /\ waitPc["w1"] = "returned"
    /\ dials = 1

\* the session is being torn down: the read loop has ended or the
\* connection was closed
TornDown == rlPc = "terminated" \/ done = "closed" \/ conn = "closed"

\* C29: after the read loop has ended or the connection was closed, a
\* handler whose invoker is running can still have it return, and a handler
\* with an answer can still take the free gate and make its write; teardown
\* withdraws none of these steps.
C29_TeardownDoesNotCancel ==
    TornDown =>
        \A i \in HandlerIds :
            /\ handlers[i].pc = "spawned" => ENABLED HandlerBegin(i)
            /\ handlers[i].pc = "invoking" => ENABLED HandlerReturn(i)
            /\ (handlers[i].pc = "lock" /\ mu = Free) => ENABLED HandlerLock(i)
            /\ handlers[i].pc = "writing" => ENABLED HandlerWrite(i)

\* after Close and the end of the read loop a handler whose invoker had run
\* made its write, which failed on the closed connection
C29_Witness ==
    \E i \in HandlerIds :
        /\ closes = 1 /\ conn = "closed" /\ linkUp
        /\ rlPc = "terminated"
        /\ handlers[i].invoked
        /\ handlers[i].pc = "done"
        /\ \E w \in WritesOf(i) : ~w.ok

\* the types the switch of the read loop has a case for
HandledTypes == {"request", "ping", "client_connected"}

\* C30: the step in which the read loop reads an envelope of a type it has
\* no case for changes only the frame read last and the count of frames
\* read: no write, no handler, no callback, no pong owed, the URL, the gate,
\* the completion signal, the connection and the liveness loop as before, and
\* the read loop is at its next read.
C30_OtherTypesIgnored ==
    [][(reads' = reads + 1 /\ msg'.type \notin HandledTypes) =>
          /\ rlPc' = "reading"
          /\ <<writes, handlers, notified, pings, tunnelURL, mu, done, rlExit,
                conn, linkUp, kaPc, ticks, config, connectRet, waitPc>>' =
             <<writes, handlers, notified, pings, tunnelURL, mu, done, rlExit,
                conn, linkUp, kaPc, ticks, config, connectRet, waitPc>>]_vars

\* a second registered frame was read and ignored, and the request read
\* after it has its handler
C30_Witness ==
    /\ reads = 2
    /\ pings = 0 /\ notified = << >>
    /\ Len(handlers) = 1
    /\ msg.type = "request"
    /\ tunnelURL = TunnelURL
    /\ writes = {}

\* C31: the read loop calls the callback for a client_connected frame
\* exactly when a callback is set as the frame is read and the frame's client
\* address is non-empty: it then makes that one call before it reads
\* again, with the frame's address, unless the host has cleared the callback
\* in between; the callback is called at no other time, and neither the
\* step that reads the frame nor the call writes to the connection, takes
\* the gate or starts a handler.
C31_ClientConnectedNotifies ==
    /\ [][(reads' = reads + 1 /\ msg'.type = "client_connected") =>
             /\ rlPc' = IF onClientConnected /\ msg'.client_ip # ""
                        THEN "notify"
                        ELSE "reading"
             /\ <<notified, writes, mu, handlers>>' = <<notified, writes, mu, handlers>>]_vars
    /\ [][(rlPc = "notify" /\ rlPc' # rlPc) =>
             /\ msg.type = "client_connected"
             /\ \/ notified' = Append(notified, msg.client_ip) /\ rlPc' = "reading"
                \/ ~onClientConnected /\ notified' = notified
             /\ <<reads, writes, mu, handlers>>' = <<reads, writes, mu, handlers>>]_vars
    /\ [][/\ notified' # notified => rlPc = "notify"
          /\ rlPc = "notify" => reads' = reads]_vars
    /\ [](rlPc = "notify" /\ Alive => ENABLED ClientConnectedCall)

\* with a callback set, a frame with a client address was read and the
\* callback called with it, then a frame without an address was read and
\* the callback not called; nothing was written
C31_Witness ==
    /\ onClientConnected
    /\ reads = 2
    /\ msg = ClientConnectedFrame("")
    /\ notified = <<"10.0.0.7">>
    /\ rlPc = "reading"
    /\ writes = {}

\* the registered frame has been read by Connect
Registered == handshake.type = "registered"

\* C32: as long as the registered frame has not been read nothing has been
\* written to the connection and nothing that writes exists: no read loop, no
\* liveness loop, no handler, and nobody holds or has taken the write gate.
C32_NoWriteBeforeHandshake ==
    ~Registered =>
        /\ writes = {}
        /\ mu = Free
        /\ rlPc = "none"
        /\ kaPc = "none"
        /\ handlers = <<>>
        /\ ticks = 0

\* the relay's first frame was a ping: Connect has read it and no pong was
\* written
C32_Witness ==
    /\ handshake = PingFrame
    /\ connectPc = "returned"
    /\ writes = {}

\* the activities that may take the write gate
Writers == {Handler(i) : i \in HandlerIds} \cup {Reader, Keepalive}

\* the holder of the gate can complete its write
CanWrite(a) ==
    CASE a.k = "handler" -> ENABLED HandlerWrite(a.i)
      [] a = Reader -> ENABLED PongWrite
      [] a = Keepalive -> ENABLED KeepaliveWrite
      [] OTHER -> FALSE

\* an activity that waits for the gate
WaitsForGate(a) ==
    CASE a.k = "handler" -> handlers[a.i].pc = "lock"
      [] a = Reader -> rlPc = "pong_lock"
      [] a = Keepalive -> kaPc = "lock"
      [] OTHER -> FALSE

CanLock(a) ==
    CASE a.k = "handler" -> ENABLED HandlerLock(a.i)
      [] a = Reader -> ENABLED PongLock
      [] a = Keepalive -> ENABLED KeepaliveLock
      [] OTHER -> FALSE

\* C33: the write gate is held only by an activity that is inside its one
\* transport write, which can always complete; a handler that decodes, runs
\* the dispatcher or the invoker, or is done, a read loop that reads or has
\* ended and a liveness loop that waits or has ended do not hold it; and an
\* activity waiting for the gate can take it whenever it is free.
C33_GateHeldForOneWrite ==
    /\ mu \in Writers \cup {Free}
    /\ \A a \in Writers :
          /\ mu = a => (a \in Writing /\ CanWrite(a))
          /\ (WaitsForGate(a) /\ mu = Free) => CanLock(a)

\* the liveness loop's write failed and it ended; the gate is free again and
\* a handler waits for it
C33_Witness ==
    /\ kaPc = "terminated"
    /\ \E w \in PongsOf(Keepalive) : ~w.ok
    /\ mu = Free
    /\ \E i \in HandlerIds : handlers[i].pc = "lock"
    /\ \E i \in HandlerIds : handlers[i].pc = "done" /\ \E w \in WritesOf(i) : ~w.ok

\* C37: as long as Connect has not succeeded on the session (not called, dial
\* failed, handshake failed) the completion signal is not set and no Wait
\* call has returned, whatever Close calls were made.
C37_NoSignalWithoutConnect ==
    ~Registered =>
        /\ done = "open"
        /\ \A w \in Waiters : waitPc[w] # "returned" /\ ~ENABLED WaitReturn(w)

\* the handshake failed, Close was called, and a Wait call is blocked
C37_Witness ==
    /\ HandshakeFailed
    /\ closes = 1
    /\ waitPc["w1"] = "blocked"
    /\ done = "open"

\* a transport write made now fails
WriteFails == ~(conn = "open" /\ linkUp)

\* C38: a response write or a pong write that fails is dropped: the step
\* frees the gate, the handler ends (the read loop goes on reading), the
\* completion signal, the connection, the liveness loop and every other
\* handler are left as they were, and a handler that has ended never writes
\* again.
C38_FailedWriteDropped ==
    [][/\ \A i \in HandlerIds :
            (WriteFails /\ handlers[i].pc = "writing" /\ handlers'[i].pc # "writing") =>
                /\ handlers'[i] = [handlers[i] EXCEPT !.pc = "done", !.sent = @ + 1]
                /\ \A j \in HandlerIds \ {i} : handlers'[j] = handlers[j]
                /\ mu' = Free
                /\ <<done, conn, rlPc, rlExit, kaPc, waitPc>>' =
                       <<done, conn, rlPc, rlExit, kaPc, waitPc>>
       /\ (WriteFails /\ rlPc = "pong_write" /\ rlPc' # rlPc) =>
                /\ rlPc' = "reading"
                /\ mu' = Free
                /\ <<done, conn, rlExit, kaPc, waitPc, handlers>>' =
                       <<done, conn, rlExit, kaPc, waitPc, handlers>>
       /\ \A i \in HandlerIds :
            handlers[i].pc = "done" =>
                /\ handlers'[i] = handlers[i]
                /\ WritesOf(i)' = WritesOf(i)]_vars

\* a pong and a response were both written in vain; the read loop reads
\* on and the completion signal is not set
C38_Witness ==
    /\ \E w \in PongsOf(Reader) : ~w.ok
    /\ \E i \in HandlerIds :
          handlers[i].pc = "done" /\ \E w \in WritesOf(i) : ~w.ok
    /\ rlPc = "reading"
    /\ mu = Free
    /\ done = "open"

\* C39: a reload whose load fails changes nothing of the session, the
\* registry least of all; the registry changes only in a reload that loaded
\* a valid configuration, to that configuration; and a handler that begins
\* after a failed reload reads the registry that was there before it.
C39_FailedReloadKeepsRegistry ==
    [][/\ (lastLoad' = "failed" /\ lastLoad' # lastLoad) =>
            /\ config' = config
            /\ handlers' = handlers
            /\ writes' = writes
       /\ config' # config =>
            /\ lastLoad' = "ok"
            /\ config' \in LoadResults \ {LoadFailed}
       /\ \A i \in HandlerIds :
            (lastLoad = "failed" /\ handlers[i].pc = "spawned"
                 /\ handlers'[i].pc # "spawned") =>
                handlers'[i].cfg = config]_vars

\* the last reload failed after an earlier one had replaced the registry,
\* and a request was answered from the replaced registry
C39_Witness ==
    /\ lastLoad = "failed"
    /\ config = ReloadedConfig
    /\ \E i \in HandlerIds :
          /\ handlers[i].pc = "done"
          /\ handlers[i].cfg = ReloadedConfig

\* C40: every result an invoker returns reports an error only together with
\* a non-zero ExitCode; so the response of an invocation whose text is
\* "Error: " and the error has isError set, and one without isError has the
\* invocation's output as text.
C40_ErrorImpliesExitCode ==
    /\ \A r \in invokeResults : r.Error # "" => r.ExitCode # 0
    /\ \A i \in HandlerIds :
          LET h == handlers[i] IN
          (h.invoked /\ Answered(i) /\ h.err = "") =>
              /\ h.result \in invokeResults
              /\ h.resp.Result.text = <<"Error: ", h.result.Error>> =>
                     h.resp.Result.isError
              /\ ~h.resp.Result.isError =>
                     h.resp.Result.text = <<h.result.Output>>

\* a script that could not be started was answered on the wire with the
\* error as text and with isError
C40_Witness ==
    \E i \in HandlerIds :
        /\ handlers[i].invoked
        /\ handlers[i].result = Result("", -1, "executable file not found")
        /\ handlers[i].pc = "done"
        /\ \E w \in WritesOf(i) :
              /\ w.ok
              /\ w.env.payload.result.text = <<"Error: ", "executable file not found">>
              /\ w.env.payload.result.isError

\* C34: whatever Connect, Wait and Close calls the host makes on one session,
\* the completion signal is set at most once: its channel is never closed a
\* second time.
C34_SignalSetOnce == done \in {"open", "closed"}

\* C35: once the read loop has terminated the liveness loop terminates too.
C35_LivenessLoopFollows == (rlPc = "terminated") ~> (kaPc = "terminated")

\* the liveness loop wrote a frame, then saw the completion signal and
\* ended
C35_Witness ==
    /\ rlPc = "terminated"
    /\ kaPc = "terminated"
    /\ \E w \in PongsOf(Keepalive) : w.ok
    /\ ticks = MaxTicks

\* Close was called on the connected session
ClosedWhileConnected == Registered /\ closes > 0 /\ conn = "closed"

\* C36: after Close on a connected session the read loop terminates and
\* the completion signal is set, and a blocked Wait call returns; the step
\* of Close is always possible and leaves loops, handlers and Wait calls
\* where they were.
C36_CloseEndsSession ==
    /\ (ClosedWhileConnected /\ ReadLoopRunning)
           ~> (rlPc = "terminated" /\ done = "closed")
    /\ \A w \in Waiters :
          (ClosedWhileConnected /\ waitPc[w] = "blocked") ~> (waitPc[w] = "returned")
    /\ [](closes < closeLimit => ENABLED Close)
    /\ [][closes' # closes =>
             <<rlPc, kaPc, done, handlers, waitPc, mu>>' =
                 <<rlPc, kaPc, done, handlers, waitPc, mu>>]_vars

\* Close was called while a handler was in the invoker; the read loop
\* ended with a read error and the Wait call returned
C36_Witness ==
    /\ ClosedWhileConnected
    /\ rlPc = "terminated"
    /\ rlExit = "read error"
    /\ done = "closed"
    /\ waitPc["w1"] = "returned"
    /\ \E i \in HandlerIds : handlers[i].pc = "invoking"
====
